---- MODULE Spec2Model ----
(***************************************************************************)
(* PostgreSQL -> Snowflake migration agent.                                *)
(*                                                                         *)
(* One run of MigrationOrchestrator.run_complete (backend/migrator.py),    *)
(* executed by the background task of backend/main.py, interleaved with    *)
(* the cancel endpoint, and the extract / PUT / COPY pipeline of           *)
(* backend/data_pipeline.py run by the worker threads of migrate_schema.   *)
(*                                                                         *)
(* Strings built with "_".join / f-strings are sequences of tokens, so     *)
(* that "a" + "_" + "b_c" and "a_b" + "_" + "c" are the same value.        *)
(* Wall-clock fields (ts, duration_ms) and message texts are left out.     *)
(***************************************************************************)
EXTENDS Integers, Sequences, FiniteSets, TLC

\* ------------------------------------------------------------------------
\* Bounds of the model
\* ------------------------------------------------------------------------
\* largest number of rows a source table holds
MaxRows == 3
\* rows per chunk file (chunk_size, 100000 in the source, scaled down)
ChunkSize == 2
\* largest preferences.parallelism explored (the source allows 1..16)
MaxParallelism == 2
\* most cancel requests whose log entry is followed
MaxCancels == 2

\* most start requests made with the run_id of the run
MaxStarts == 2

\* ------------------------------------------------------------------------
\* Program constants
\* ------------------------------------------------------------------------
\* tenacity: stop_after_attempt(3) on upload_file_to_stage / copy_into_table
StopAfterAttempt == 3

None == "None"

\* MigrationStatus
PENDING == "pending"
ANALYZING == "analyzing"
PLANNING == "planning"
AWAITING_CONFIRMATION == "awaiting_confirmation"
EXECUTING == "executing"
VALIDATING == "validating"
COMPLETED == "completed"
FAILED == "failed"
CANCELLED == "cancelled"

MigrationStatus ==
  {PENDING, ANALYZING, PLANNING, AWAITING_CONFIRMATION, EXECUTING,
   VALIDATING, COMPLETED, FAILED, CANCELLED}

\* the statuses delete_migration accepts: the terminal ones
TerminalStatus == {COMPLETED, FAILED, CANCELLED}

\* DataFormat
DataFormat == {"CSV", "PARQUET"}

\* ------------------------------------------------------------------------
\* The source database: what PostgresAnalyzer.analyze_complete reads
\* ------------------------------------------------------------------------
TableDetail(name, pk, nn, js) ==
  [table_name |-> name, has_pk |-> pk, not_null |-> nn, json |-> js]

SchemaDetail(name, tables) == [schema_name |-> name, tables |-> tables]

\* no schema selected
CatalogEmpty == << >>

\* one schema, two tables: the tables are migrated by concurrent workers
CatalogOneSchema ==
  << SchemaDetail(<<"s">>,
       << TableDetail(<<"t1">>, TRUE, TRUE, FALSE),
          TableDetail(<<"t2">>, FALSE, FALSE, TRUE) >>) >>

\* schema a with table b_c, schema a_b with table c
CatalogTwoSchemas ==
  << SchemaDetail(<<"a">>, << TableDetail(<<"b", "c">>, TRUE, FALSE, FALSE) >>),
     SchemaDetail(<<"a", "b">>, << TableDetail(<<"c">>, FALSE, TRUE, FALSE) >>) >>

Catalogs == {CatalogEmpty, CatalogOneSchema, CatalogTwoSchemas}

\* analysis_results: no analysis yet, or the one analysis made
NoAnalysis == << >>

\* analysis_results['schemas']
Schemas(analysis) == analysis[1]

TableKeys(cat) ==
  UNION {{<<si, ti>> : ti \in 1..Len(cat[si].tables)} : si \in 1..Len(cat)}

SchemaName(cat, k) == cat[k[1]].schema_name
TableName(cat, k) == cat[k[1]].tables[k[2]].table_name

\* ------------------------------------------------------------------------
\* Sequence helpers
\* ------------------------------------------------------------------------
Last(s) == s[Len(s)]

Range(s) == {s[i] : i \in DOMAIN s}

\* dict.get(key, default)
Get(r, key, default) == IF key \in DOMAIN r THEN r[key] ELSE default

\* sum(r['rows_loaded'] for r in results)
RECURSIVE SumRowsLoaded(_)
SumRowsLoaded(results) ==
  IF results = << >> THEN 0
  ELSE Head(results).rows_loaded + SumRowsLoaded(Tail(results))

\* sum(r.get('rows_loaded', 0) for r in migration_results)
RECURSIVE TotalRows(_)
TotalRows(results) ==
  IF results = << >> THEN 0
  ELSE Get(Head(results), "rows_loaded", 0) + TotalRows(Tail(results))

\* ------------------------------------------------------------------------
\* DataExtractor: chunking of a table's rows into files
\* ------------------------------------------------------------------------
\* the loop `for row in cur` of extract_table_to_csv over `left` more rows;
\* open: current_buffer is not None; files: rows written to each file so far
RECURSIVE CsvLoop(_, _, _, _)
CsvLoop(left, open, rows_in_chunk, files) ==
  IF left = 0
  THEN IF open /\ rows_in_chunk > 0 THEN Append(files, rows_in_chunk) ELSE files
  ELSE LET r == (IF open THEN rows_in_chunk ELSE 0) + 1
       IN IF r >= ChunkSize
          THEN CsvLoop(left - 1, FALSE, r, Append(files, r))
          ELSE CsvLoop(left - 1, TRUE, r, files)

\* the loop of extract_table_to_parquet; chunk_data: rows accumulated
RECURSIVE ParquetLoop(_, _, _)
ParquetLoop(left, chunk_data, files) ==
  IF left = 0
  THEN IF chunk_data > 0 THEN Append(files, chunk_data) ELSE files
  ELSE IF chunk_data + 1 >= ChunkSize
       THEN ParquetLoop(left - 1, 0, Append(files, chunk_data + 1))
       ELSE ParquetLoop(left - 1, chunk_data + 1, files)

Extension(format) == IF format = "CSV" THEN "csv.gz" ELSE "parquet"

\* f"{chunk_num:04d}": zero-padded to four digits, longer when it needs more
Format04d(chunk_num) ==
  IF chunk_num < 10 THEN "000" \o ToString(chunk_num)
  ELSE IF chunk_num < 100 THEN "00" \o ToString(chunk_num)
  ELSE IF chunk_num < 1000 THEN "0" \o ToString(chunk_num)
  ELSE ToString(chunk_num)

\* f"{schema}_{table}_chunk_{chunk_num:04d}.<ext>"
ChunkFileName(schema, table, chunk_num, format) ==
  schema \o table \o <<"chunk", Format04d(chunk_num), Extension(format)>>

\* os.path.join(self.temp_path, name)
JoinPath(dir, name) == [dir |-> dir, name |-> name]

\* os.path.basename(file_path)
Basename(file_path) == file_path.name

\* an extractor that writes all rows of a table to one file
ExtractTable_OneFile(format, nrows) ==
  IF nrows = 0 THEN << >> ELSE << nrows >>

\* extract_table: the rows written to each chunk file, in chunk order
ExtractTable(format, nrows) ==
  IF format = "CSV" THEN CsvLoop(nrows, FALSE, 0, << >>)
  ELSE ParquetLoop(nrows, 0, << >>)

\* the paths extract_table returns for a table with nrows rows
ExtractedPaths(schema, table, format, nrows) ==
  [i \in 1..Len(ExtractTable(format, nrows)) |->
     JoinPath("temp_dir", ChunkFileName(schema, table, i, format))]

\* ------------------------------------------------------------------------
\* SnowflakeLoader: retry wrapper, PUT and COPY
\* ------------------------------------------------------------------------
\* a retry wrapper that gives up after the first failure
ShouldRetry_Never(raised, attempt_number) == FALSE

\* tenacity @retry(stop=stop_after_attempt(3)): the wrapped call is repeated
\* while it raised and fewer than StopAfterAttempt attempts were made
ShouldRetry(raised, attempt_number) ==
  raised /\ attempt_number < StopAfterAttempt

\* body of upload_file_to_stage: returns the basename, or logs and re-raises
UploadBody(file_path, put_ok) ==
  IF put_ok THEN [raised |-> FALSE, value |-> Basename(file_path)]
  ELSE [raised |-> TRUE, value |-> None]

\* what cursor.execute(copy_cmd) / fetchall can do for one staged file
CopyOutcomes == {"LOADED", "NOT_LOADED", "ERROR"}

\* body of copy_into_table: the except clause returns a 'failed' dict
CopyBody(file_pattern, file_rows, outcome) ==
  IF outcome = "ERROR"
  THEN [raised |-> FALSE,
        value |-> [file |-> file_pattern, rows_loaded |-> 0, status |-> "failed"]]
  ELSE [raised |-> FALSE,
        value |-> [file |-> file_pattern,
                   rows_loaded |-> IF outcome = "LOADED" THEN file_rows ELSE 0,
                   status |-> "success"]]

\* the dict load_table records when upload_file_to_stage raised
UploadFailed(file_path) ==
  [file |-> Basename(file_path), rows_loaded |-> 0, status |-> "upload_failed"]

\* migrate_table: the aggregate built from the load results
TableCompleted(schema, table, file_paths, load_results) ==
  [schema |-> schema, table |-> table, status |-> "completed",
   rows_loaded |-> SumRowsLoaded(load_results),
   file_count |-> Len(file_paths),
   load_results |-> load_results]

\* an except clause that reports the table as migrated
TableFailed_Completed(schema, table) ==
  [schema |-> schema, table |-> table, status |-> "completed"]

\* migrate_table: the dict returned by the except clause
TableFailed(schema, table) ==
  [schema |-> schema, table |-> table, status |-> "failed"]

\* ------------------------------------------------------------------------
\* DataValidator.validate_table and the DDL script
\* ------------------------------------------------------------------------
\* what the validation queries of one run meet on the target
ValidationEnvs == {"clean", "violations", "query_error"}

\* validate_row_counts / check_primary_key_duplicates: the except clause
\* returns ERROR
CheckOrError(env) ==
  CASE env = "clean" -> "PASS"
    [] env = "violations" -> "FAIL"
    [] OTHER -> "ERROR"

\* check_null_constraints / check_json_validity: a failing query is logged
\* and skipped, the status is derived from the violations found
CheckOrSwallow(env) == IF env = "violations" THEN "FAIL" ELSE "PASS"

ValidationResult(schema, table, check, st) ==
  [schema |-> schema, table |-> table, check |-> check, status |-> st]

\* the four results validate_table appends for one table
ValidateTable(schema, detail, env) ==
  LET t == detail.table_name
  IN << ValidationResult(schema, t, "row_count", CheckOrError(env)),
        ValidationResult(schema, t, "not_null_constraints",
          IF detail.not_null THEN CheckOrSwallow(env) ELSE "PASS"),
        ValidationResult(schema, t, "primary_key_duplicates",
          IF detail.has_pk THEN CheckOrError(env) ELSE "SKIP"),
        ValidationResult(schema, t, "json_validity",
          IF detail.json THEN CheckOrSwallow(env) ELSE "SKIP") >>

\* a `migrated` that does not look at the status
Migrated_AnyStatus(results, schema, table) ==
  \E i \in DOMAIN results :
     /\ results[i].schema = schema
     /\ results[i].table = table

\* `migrated` in validate: some result of this table has status 'completed'
Migrated(results, schema, table) ==
  \E i \in DOMAIN results :
     /\ results[i].schema = schema
     /\ results[i].table = table
     /\ results[i].status = "completed"

\* validate: the loops over schemas and tables, from table `ti` of schema `si`
RECURSIVE ValidateLoop(_, _, _, _, _)
ValidateLoop(cat, results, env, si, ti) ==
  IF si > Len(cat) THEN << >>
  ELSE IF ti > Len(cat[si].tables) THEN ValidateLoop(cat, results, env, si + 1, 1)
  ELSE (IF Migrated(results, cat[si].schema_name, cat[si].tables[ti].table_name)
        THEN ValidateTable(cat[si].schema_name, cat[si].tables[ti], env)
        ELSE << >>)
       \o ValidateLoop(cat, results, env, si, ti + 1)

RECURSIVE NumTables(_)
NumTables(cat) ==
  IF cat = << >> THEN 0 ELSE Len(Head(cat).tables) + NumTables(Tail(cat))

\* statements of snowflake_objects.sql: CREATE DATABASE, USE DATABASE,
\* CREATE STAGE, CREATE FILE FORMAT, one CREATE SCHEMA per schema and one
\* CREATE TABLE per table
NumDDL(cat) == 4 + Len(cat) + NumTables(cat)

\* the artifacts plan() writes, in the order it writes them
PlanArtifacts ==
  << "snowflake_objects.sql", "mapping_decisions.yml",
     "improvement_recommendations.md", "load_plan.yml",
     "post_migration_checks.sql", "copy_commands.sql" >>

\* the `artifacts` list plan() returns
PlanningArtifacts == {"analysis_report.json"} \cup Range(PlanArtifacts)

\* ------------------------------------------------------------------------
\* MigrationOrchestrator.get_progress
\* ------------------------------------------------------------------------
\* total_tables: tables of the schemas of the analysis, 0 without analysis
TotalTables(analysis) ==
  IF analysis = NoAnalysis THEN 0 ELSE NumTables(Schemas(analysis))

\* completed_tables: migration results with status 'completed'
CompletedTables(results) ==
  Cardinality({i \in DOMAIN results : Get(results[i], "status", None) = "completed"})

\* progress_percent for the status st; completed / total * 60 is a float in
\* the source, and an integer for the table counts explored here
ProgressPercent(st, completed_tables, total_tables) ==
  IF total_tables > 0
  THEN CASE st = ANALYZING -> 10
         [] st = PLANNING -> 20
         [] st = AWAITING_CONFIRMATION -> 25
         [] st = EXECUTING -> 30 + (completed_tables * 60) \div total_tables
         [] st = VALIDATING -> 90
         [] st = COMPLETED -> 100
         [] OTHER -> 0
  ELSE 0

\* get_progress: the TableStatus built from one migration result
TableStatus(result) ==
  [table_name |-> Get(result, "table", << "unknown" >>),
   schema_name |-> Get(result, "schema", << "unknown" >>),
   status |-> Get(result, "status", "unknown"),
   rows_loaded |-> Get(result, "rows_loaded", None),
   retries |-> Get(result, "retries", 0)]

\* the MigrationProgress get_progress builds from one status st
MigrationProgress(st, analysis, results) ==
  [status |-> st, phase |-> st,
   progress_percent |->
     ProgressPercent(st, CompletedTables(results), TotalTables(analysis)),
   tables_completed |-> CompletedTables(results),
   tables_total |-> TotalTables(analysis)]

\* ------------------------------------------------------------------------
\* TypeMapper and SnowflakeGenerator: the definition of one column.  An
\* identifier, a sequence name and a default expression are sequences of
\* characters; a value that may be None is << >> or << value >>.
\* ------------------------------------------------------------------------
QUOTE == "\""

\* the letters; "eacute" stands for the one letter e with an acute accent
LowerCase ==
  << "a", "b", "c", "d", "e", "f", "g", "h", "i", "j", "k", "l", "m", "n", "o", "p", "q", "r", "s", "t", "u", "v", "w", "x", "y", "z", "eacute" >>
UpperCase ==
  << "A", "B", "C", "D", "E", "F", "G", "H", "I", "J", "K", "L", "M", "N", "O", "P", "Q", "R", "S", "T", "U", "V", "W", "X", "Y", "Z", "EACUTE" >>
Digits == {"0", "1", "2", "3", "4", "5", "6", "7", "8", "9"}

\* str.upper and str.lower
StrUpper(s) ==
  [i \in DOMAIN s |->
     IF \E n \in DOMAIN LowerCase : LowerCase[n] = s[i]
     THEN UpperCase[CHOOSE n \in DOMAIN LowerCase : LowerCase[n] = s[i]]
     ELSE s[i]]
StrLower(s) ==
  [i \in DOMAIN s |->
     IF \E n \in DOMAIN UpperCase : UpperCase[n] = s[i]
     THEN LowerCase[CHOOSE n \in DOMAIN UpperCase : UpperCase[n] = s[i]]
     ELSE s[i]]

\* str.isalnum: not empty, and every character a letter or a digit
IsAlnum(s) ==
  /\ s # << >>
  /\ \A i \in DOMAIN s : s[i] \in Range(LowerCase) \cup Range(UpperCase) \cup Digits

NotUnderscore(c) == c # "_"

\* str.startswith
StartsWith(s, prefix) ==
  Len(s) >= Len(prefix) /\ SubSeq(s, 1, Len(prefix)) = prefix

\* the places of the character c in s
Places(s, c) == {i \in DOMAIN s : s[i] = c}

Min(S) == CHOOSE x \in S : \A y \in S : x <= y
Max(S) == CHOOSE x \in S : \A y \in S : x >= y

\* s.split(c)[1], for an s that holds c
SplitSecond(s, c) ==
  LET a == Min(Places(s, c))
      rest == {i \in Places(s, c) : i > a}
  IN IF rest = {} THEN SubSeq(s, a + 1, Len(s))
     ELSE SubSeq(s, a + 1, Min(rest) - 1)

\* s.split(c)[-1]
SplitLast(s, c) ==
  IF Places(s, c) = {} THEN s ELSE SubSeq(s, Max(Places(s, c)) + 1, Len(s))

\* truth of an optional number: None and 0 are false
Truthy(opt) == opt # << >> /\ opt[1] # 0

\* SnowflakeGenerator.quote_identifier: the words quoted as reserved
snowflake_reserved ==
  {
    << "A", "C", "C", "O", "U", "N", "T" >>, << "A", "L", "L" >>,
    << "A", "L", "T", "E", "R" >>, << "A", "N", "D" >>,
    << "A", "N", "Y" >>, << "A", "S" >>,
    << "B", "E", "T", "W", "E", "E", "N" >>, << "B", "Y" >>,
    << "C", "A", "S", "E" >>, << "C", "A", "S", "T" >>,
    << "C", "H", "E", "C", "K" >>, << "C", "O", "L", "U", "M", "N" >>,
    << "C", "O", "N", "N", "E", "C", "T" >>, << "C", "O", "P", "Y" >>,
    << "C", "R", "E", "A", "T", "E" >>, << "C", "U", "R", "R", "E", "N", "T" >>,
    << "D", "A", "T", "A", "B", "A", "S", "E" >>, << "D", "E", "L", "E", "T", "E" >>,
    << "D", "I", "S", "T", "I", "N", "C", "T" >>, << "D", "R", "O", "P" >>
  }

\* PostgresAnalyzer._assess_compatibility: the words flagged as reserved
analyzer_snowflake_reserved ==
  {
    << "A", "C", "C", "O", "U", "N", "T" >>, << "A", "L", "L" >>,
    << "A", "L", "T", "E", "R" >>, << "A", "N", "D" >>,
    << "A", "N", "Y" >>, << "A", "S" >>,
    << "B", "E", "T", "W", "E", "E", "N" >>, << "B", "Y" >>,
    << "C", "A", "S", "E" >>, << "C", "A", "S", "T" >>,
    << "C", "H", "E", "C", "K" >>, << "C", "O", "L", "U", "M", "N" >>,
    << "C", "O", "N", "N", "E", "C", "T" >>, << "C", "O", "P", "Y" >>,
    << "C", "R", "E", "A", "T", "E" >>, << "C", "U", "R", "R", "E", "N", "T" >>,
    << "D", "A", "T", "A", "B", "A", "S", "E" >>, << "D", "E", "L", "E", "T", "E" >>,
    << "D", "I", "S", "T", "I", "N", "C", "T" >>, << "D", "R", "O", "P" >>,
    << "E", "L", "S", "E" >>, << "E", "X", "I", "S", "T", "S" >>,
    << "F", "A", "L", "S", "E" >>, << "F", "O", "L", "L", "O", "W", "I", "N", "G" >>,
    << "F", "O", "R" >>, << "F", "R", "O", "M" >>,
    << "F", "U", "L", "L" >>, << "G", "R", "A", "N", "T" >>,
    << "G", "R", "O", "U", "P" >>, << "H", "A", "V", "I", "N", "G" >>,
    << "I", "L", "I", "K", "E" >>, << "I", "N" >>,
    << "I", "N", "C", "R", "E", "M", "E", "N", "T" >>, << "I", "N", "S", "E", "R", "T" >>,
    << "I", "N", "T", "E", "R", "S", "E", "C", "T" >>, << "I", "N", "T", "O" >>,
    << "I", "S" >>, << "I", "S", "S", "U", "E" >>,
    << "J", "O", "I", "N" >>, << "L", "A", "T", "E", "R", "A", "L" >>,
    << "L", "E", "F", "T" >>, << "L", "I", "K", "E" >>,
    << "L", "O", "C", "A", "L", "T", "I", "M", "E" >>, << "L", "O", "C", "A", "L", "T", "I", "M", "E", "S", "T", "A", "M", "P" >>,
    << "M", "I", "N", "U", "S" >>, << "N", "A", "T", "U", "R", "A", "L" >>,
    << "N", "O", "T" >>, << "N", "U", "L", "L" >>,
    << "O", "F" >>, << "O", "N" >>,
    << "O", "R" >>, << "O", "R", "D", "E", "R" >>,
    << "O", "R", "G", "A", "N", "I", "Z", "A", "T", "I", "O", "N" >>, << "Q", "U", "A", "L", "I", "F", "Y" >>,
    << "R", "E", "G", "E", "X", "P" >>, << "R", "E", "V", "O", "K", "E" >>,
    << "R", "I", "G", "H", "T" >>, << "R", "L", "I", "K", "E" >>,
    << "R", "O", "W" >>, << "R", "O", "W", "S" >>,
    << "S", "A", "M", "P", "L", "E" >>, << "S", "C", "H", "E", "M", "A" >>,
    << "S", "E", "L", "E", "C", "T" >>, << "S", "E", "T" >>,
    << "S", "O", "M", "E" >>, << "S", "T", "A", "R", "T" >>,
    << "T", "A", "B", "L", "E" >>, << "T", "A", "B", "L", "E", "S", "A", "M", "P", "L", "E" >>,
    << "T", "H", "E", "N" >>, << "T", "O" >>,
    << "T", "R", "I", "G", "G", "E", "R" >>, << "T", "R", "U", "E" >>,
    << "T", "R", "Y", "_", "C", "A", "S", "T" >>, << "U", "N", "I", "O", "N" >>,
    << "U", "N", "I", "Q", "U", "E" >>, << "U", "P", "D", "A", "T", "E" >>,
    << "U", "S", "I", "N", "G" >>, << "V", "A", "L", "U", "E", "S" >>,
    << "V", "I", "E", "W" >>, << "W", "H", "E", "N" >>,
    << "W", "H", "E", "N", "E", "V", "E", "R" >>, << "W", "H", "E", "R", "E" >>,
    << "W", "I", "T", "H" >>
  }

CaseStyle == {"UPPER", "LOWER", "PRESERVE"}

normalize_identifier(case_style, name) ==
  IF case_style = "UPPER" THEN StrUpper(name)
  ELSE IF case_style = "LOWER" THEN StrLower(name)
  ELSE name

\* f'"{normalized}"'
Quoted(normalized) == << QUOTE >> \o normalized \o << QUOTE >>

quote_identifier(case_style, name) ==
  LET normalized == normalize_identifier(case_style, name)
  IN IF \/ StrUpper(normalized) \in snowflake_reserved
        \/ ~IsAlnum(SelectSeq(normalized, NotUnderscore))
     THEN Quoted(normalized)
     ELSE normalized

\* copy_into_table: f"{schema}.{table}", the two names as they are written
copy_full_table(schema, table) == << schema, table >>

\* copy_into_table: f'"{col}"', an element of the column list
copy_column(col) == Quoted(col)

\* get_sf_row_count: f'"{schema}"."{table}"', the two names as they are written
validator_table(schema, table) == << Quoted(schema), Quoted(table) >>

\* TypeMapper.TYPE_MAP, as key / value pairs
TYPE_MAP ==
  {
    << "smallint", << "NUMBER(5,0)" >> >>,
    << "integer", << "NUMBER(10,0)" >> >>,
    << "bigint", << "NUMBER(19,0)" >> >>,
    << "decimal", << "NUMBER" >> >>,
    << "numeric", << "NUMBER" >> >>,
    << "real", << "FLOAT" >> >>,
    << "double precision", << "FLOAT" >> >>,
    << "smallserial", << "NUMBER(5,0)" >> >>,
    << "serial", << "NUMBER(10,0)" >> >>,
    << "bigserial", << "NUMBER(19,0)" >> >>,
    << "money", << "NUMBER(19,4)" >> >>,
    << "character varying", << "VARCHAR" >> >>,
    << "varchar", << "VARCHAR" >> >>,
    << "character", << "CHAR" >> >>,
    << "char", << "CHAR" >> >>,
    << "text", << "VARCHAR" >> >>,
    << "bytea", << "BINARY" >> >>,
    << "timestamp without time zone", << "TIMESTAMP_NTZ" >> >>,
    << "timestamp with time zone", << "TIMESTAMP_TZ" >> >>,
    << "timestamp", << "TIMESTAMP_NTZ" >> >>,
    << "timestamptz", << "TIMESTAMP_TZ" >> >>,
    << "date", << "DATE" >> >>,
    << "time without time zone", << "TIME" >> >>,
    << "time with time zone", << "TIME" >> >>,
    << "time", << "TIME" >> >>,
    << "interval", << "VARCHAR" >> >>,
    << "boolean", << "BOOLEAN" >> >>,
    << "bool", << "BOOLEAN" >> >>,
    << "json", << "VARIANT" >> >>,
    << "jsonb", << "VARIANT" >> >>,
    << "uuid", << "VARCHAR(36)" >> >>,
    << "inet", << "VARCHAR(45)" >> >>,
    << "cidr", << "VARCHAR(45)" >> >>,
    << "macaddr", << "VARCHAR(17)" >> >>,
    << "point", << "VARCHAR" >> >>,
    << "line", << "VARCHAR" >> >>,
    << "lseg", << "VARCHAR" >> >>,
    << "box", << "VARCHAR" >> >>,
    << "path", << "VARCHAR" >> >>,
    << "polygon", << "VARCHAR" >> >>,
    << "circle", << "VARCHAR" >> >>,
    << "ARRAY", << "VARIANT" >> >>,
    << "USER-DEFINED", << "VARCHAR" >> >>
  }

\* pg_type.lower() on the type names met here
TypeLower(pg_type) ==
  CASE pg_type = "CHAR" -> "char"
    [] pg_type = "ARRAY" -> "array"
    [] pg_type = "USER-DEFINED" -> "user-defined"
    [] OTHER -> pg_type

\* the type names that hold '[]'
BracketTypes == {"integer[]"}

\* Snowflake max VARCHAR
MaxVarchar == 16777216

\* a character branch that also rejects the largest length
MapCharType_Exclusive(pg_type, char_max_length) ==
  IF Truthy(char_max_length)
  THEN IF char_max_length[1] >= MaxVarchar
       THEN [sf_type |-> << "VARCHAR" >>,
             rationale |-> << "PostgreSQL", pg_type, "(", ToString(char_max_length[1]), ")",
                              "exceeds Snowflake max; using VARCHAR(16777216)" >>]
       ELSE [sf_type |-> << "VARCHAR", "(", ToString(char_max_length[1]), ")" >>,
             rationale |-> << "PostgreSQL", pg_type, "with length preserved" >>]
  ELSE [sf_type |-> << "VARCHAR" >>,
        rationale |-> << "PostgreSQL", pg_type, "mapped to VARCHAR" >>]

\* map_type, the branch of the character types
MapCharType(pg_type, char_max_length) ==
  IF Truthy(char_max_length)
  THEN IF char_max_length[1] > MaxVarchar
       THEN [sf_type |-> << "VARCHAR" >>,
             rationale |-> << "PostgreSQL", pg_type, "(", ToString(char_max_length[1]), ")",
                              "exceeds Snowflake max; using VARCHAR(16777216)" >>]
       ELSE [sf_type |-> << "VARCHAR", "(", ToString(char_max_length[1]), ")" >>,
             rationale |-> << "PostgreSQL", pg_type, "with length preserved" >>]
  ELSE [sf_type |-> << "VARCHAR" >>,
        rationale |-> << "PostgreSQL", pg_type, "mapped to VARCHAR" >>]

CharTypes == {"character varying", "varchar", "character", "char"}

map_type(pg_type, udt_name, char_max_length, numeric_precision, numeric_scale) ==
  LET pg_type_lower == TypeLower(pg_type)
  IN IF pg_type \in BracketTypes \/ pg_type = "ARRAY"
     THEN [sf_type |-> << "VARIANT" >>,
           rationale |-> << "PostgreSQL array mapped to VARIANT for semi-structured storage" >>]
     ELSE IF pg_type_lower \in {"numeric", "decimal"}
     THEN [sf_type |->
             IF Truthy(numeric_precision) /\ numeric_scale # << >>
             THEN << "NUMBER", "(", ToString(numeric_precision[1]), ",",
                     ToString(numeric_scale[1]), ")" >>
             ELSE IF Truthy(numeric_precision)
             THEN << "NUMBER", "(", ToString(numeric_precision[1]), ",", "0", ")" >>
             ELSE << "NUMBER(38,0)" >>,
           rationale |-> << "PostgreSQL", pg_type, "with precision/scale preserved" >>]
     ELSE IF pg_type_lower \in CharTypes
     THEN MapCharType(pg_type, char_max_length)
     ELSE IF pg_type_lower = "text"
     THEN [sf_type |-> << "VARCHAR" >>,
           rationale |-> << "PostgreSQL TEXT mapped to VARCHAR (unlimited)" >>]
     ELSE IF \E kv \in TYPE_MAP : kv[1] = pg_type_lower
     THEN LET sf_type == (CHOOSE kv \in TYPE_MAP : kv[1] = pg_type_lower)[2]
          IN [sf_type |-> sf_type,
              rationale |-> << "Standard mapping:", pg_type >> \o sf_type]
     ELSE IF pg_type = "USER-DEFINED"
     THEN [sf_type |-> << "VARCHAR" >>,
           rationale |-> << "User-defined type", udt_name,
                            "mapped to VARCHAR; consider adding validation" >>]
     ELSE [sf_type |-> << "VARCHAR" >>,
           rationale |-> << "Unknown type", pg_type, "mapped to VARCHAR (needs review)" >>]

\* f" DEFAULT {schema}.{self.quote_identifier(seq_name)}.NEXTVAL"
DefaultNextval(case_style, schema, seq_name) ==
  << "DEFAULT", schema, ".", quote_identifier(case_style, seq_name), ".", "NEXTVAL" >>

NEXTVAL_CALL == << "n", "e", "x", "t", "v", "a", "l", "(" >>
NEXTVAL_WORD == << "n", "e", "x", "t", "v", "a", "l" >>

\* generate_table_ddl: the IDENTITY or DEFAULT clause of a column
IdentityOrDefault(preferences, schema, col) ==
  IF col.is_identity = "YES" /\ preferences.use_identity_for_serial
  THEN [identity |->
          << IF Truthy(col.identity_start) THEN col.identity_start[1] ELSE 1,
             IF Truthy(col.identity_increment) THEN col.identity_increment[1] ELSE 1 >>,
        default |-> << >>]
  ELSE IF col.serial_sequence # << >>
  THEN [identity |-> << >>,
        default |-> DefaultNextval(preferences.case_style, schema,
                                   SplitLast(col.serial_sequence, "."))]
  ELSE IF col.column_default # << >>
  THEN IF StartsWith(col.column_default, NEXTVAL_CALL)
       THEN IF Places(col.column_default, "'") # {}
               /\ SplitSecond(col.column_default, "'") # << >>
            THEN [identity |-> << >>,
                  default |-> DefaultNextval(preferences.case_style, schema,
                                SplitLast(SplitSecond(col.column_default, "'"), "."))]
            ELSE [identity |-> << >>, default |-> << >>]
       ELSE IF ~StartsWith(StrLower(col.column_default), NEXTVAL_WORD)
       THEN [identity |-> << >>, default |-> << "DEFAULT", col.column_default >>]
       ELSE [identity |-> << >>, default |-> << >>]
  ELSE [identity |-> << >>, default |-> << >>]

\* generate_table_ddl: the body of the loop over the columns
ColumnDef(preferences, schema_name, col) ==
  LET schema == quote_identifier(preferences.case_style, schema_name)
      m == map_type(col.data_type, col.udt_name, col.character_maximum_length,
                    col.numeric_precision, col.numeric_scale)
      d == IdentityOrDefault(preferences, schema, col)
  IN [col_name |-> quote_identifier(preferences.case_style, col.column_name),
      sf_type |-> m.sf_type,
      rationale |-> m.rationale,
      identity |-> d.identity,
      default |-> d.default,
      not_null |-> (col.is_nullable = "NO")]

\* the inputs explored: column names
ColumnNames ==
  {
    << "o", "r", "d", "e", "r" >>, << "O", "R", "D", "E", "R" >>,
    << "a", "s" >>, << "D", "r", "o", "p" >>,
    << "i", "d" >>, << "m", "y", "_", "c", "o", "l" >>,
    << "m", "y", "-", "c", "o", "l" >>, << "_" >>,
    << "c", "a", "f", "eacute" >>, << "c", "o", "l", "1" >>
  }

\* type descriptors of a column: data_type, udt_name,
\* character_maximum_length, numeric_precision, numeric_scale
TypeInputs ==
  ((CharTypes \cup {"CHAR"}) \X {"u"}
     \X {<< >>, << 0 >>, << 1 >>, << MaxVarchar >>, << MaxVarchar + 1 >>, << MaxVarchar + 2 >>}
     \X {<< >>} \X {<< >>})
  \cup
  ({"numeric"} \X {"u"} \X {<< >>} \X {<< >>, << 10 >>} \X {<< >>, << 0 >>, << 2 >>})
  \cup
  ({"text", "integer", "serial", "json", "integer[]", "ARRAY", "USER-DEFINED", "xml"}
     \X {"u"} \X {<< >>} \X {<< >>} \X {<< >>})

SchemaPublic == << "p", "u", "b", "l", "i", "c" >>

\* is_identity, identity_start and identity_increment, serial_sequence,
\* column_default, is_nullable
DefaultInputs ==
  {"YES", "NO"}
    \X {<< << >>, << >> >>, << << 5 >>, << 2 >> >>}
    \X {<< >>, << "p", "u", "b", "l", "i", "c", ".", "t", "_", "i", "d", "_", "s", "e", "q" >>}
    \X
     {<< >>,
      << "n", "e", "x", "t", "v", "a", "l", "(", "'", "p", "u", "b", "l", "i", "c", ".", "t", "_", "i", "d", "_", "s", "e", "q", "'", ":", ":", "r", "e", "g", "c", "l", "a", "s", "s", ")" >>,
      << "N", "E", "X", "T", "V", "A", "L", "(", "'", "s", "'", ")" >>,
      << "0" >>,
      << "'", "a", ";", "b", "'" >>,
      << "n", "e", "x", "t", "v", "a", "l", "(", "s", ")" >>}
    \X {"YES", "NO"}

\* a row of the columns query
Column(column_name, t, d) ==
  [column_name |-> column_name, data_type |-> t[1], udt_name |-> t[2],
   character_maximum_length |-> t[3],
   numeric_precision |-> t[4], numeric_scale |-> t[5],
   is_identity |-> d[1], identity_start |-> d[2][1],
   identity_increment |-> d[2][2], serial_sequence |-> d[3],
   column_default |-> d[4], is_nullable |-> d[5]]

\* the rows explored: every name, every type descriptor and every
\* combination of the default attributes, the rest of the row held fixed
ColumnInputs ==
  (ColumnNames \X {<< "integer", "u", << >>, << >>, << >> >>}
     \X {<< "NO", << << >>, << >> >>, << >>, << >>, "YES" >>})
  \cup ({<< "i", "d" >>} \X TypeInputs
          \X {<< "NO", << << >>, << >> >>, << >>, << >>, "NO" >>})
  \cup ({<< "i", "d" >>} \X {<< "integer", "u", << >>, << >>, << >> >>}
          \X DefaultInputs)

Preferences == [use_identity_for_serial : BOOLEAN, case_style : CaseStyle]

\* SnowflakeGenerator.__init__
NewGenerator(preferences) ==
  [preferences |-> preferences, table_name |-> << >>, full_table_name |-> << >>,
   col |-> << >>, col_def |-> << >>, view_definition |-> << >>, ddl |-> << >>]

\* "\n".join(lines)
RECURSIVE JoinLines(_)
JoinLines(lines) ==
  IF lines = << >> THEN << >>
  ELSE IF Len(lines) = 1 THEN lines[1]
  ELSE lines[1] \o << "\n" >> \o JoinLines(Tail(lines))

\* str.split(sep)
RECURSIVE SplitOn(_, _)
SplitOn(s, sep) ==
  IF Places(s, sep) = {} THEN << s >>
  ELSE LET i == Min(Places(s, sep))
       IN << SubSeq(s, 1, i - 1) >> \o SplitOn(SubSeq(s, i + 1, Len(s)), sep)

\* str.strip(): white space at both ends removed
RECURSIVE Strip(_)
Strip(s) ==
  IF s = << >> THEN s
  ELSE IF Head(s) \in {"\n", " ", "    ", ""} THEN Strip(Tail(s))
  ELSE IF Last(s) \in {"\n", " ", "    ", ""} THEN Strip(SubSeq(s, 1, Len(s) - 1))
  ELSE s

\* generate_table_ddl: the text returned for a table of one column without
\* comment, constraint or cluster key; "--" opens a comment
table_ddl(full_table_name, col_def) ==
  << "CREATE TABLE IF NOT EXISTS " >> \o full_table_name[1] \o << "." >>
    \o full_table_name[2] \o << " (", "\n", "    " >>
    \o col_def.col_name \o << " " >> \o col_def.sf_type
    \o (IF col_def.identity = << >> THEN << >>
        ELSE << " IDENTITY(", ToString(col_def.identity[1]), ", ",
                ToString(col_def.identity[2]), ")" >>)
    \o (IF col_def.default = << >> THEN << >>
        ELSE IF Len(col_def.default) = 2
        THEN << " DEFAULT " >> \o col_def.default[2]
        ELSE << " DEFAULT " >> \o col_def.default[2] \o << "." >>
               \o col_def.default[4] \o << ".NEXTVAL" >>)
    \o (IF col_def.not_null THEN << " NOT NULL" >> ELSE << >>)
    \o << "\n", ")", ";" >>

generate_view_ddl(schema, view_name, view_def) ==
  << "--", " View: " >> \o schema \o << "." >> \o view_name \o << "\n" >>
    \o << "--", " Original PostgreSQL definition:", "\n" >>
    \o << "--", " " >> \o view_def \o << "\n" >>
    \o << "--", " TODO: Review and transform PostgreSQL-specific syntax for Snowflake", "\n" >>
    \o << "--", " CREATE OR REPLACE VIEW " >> \o schema \o << "." >> \o view_name
    \o << " AS", "\n" >>
    \o << "--", " <transformed_query>", ";", "\n" >>

\* execute_ddl_script: [s.strip() for s in script.split(';') if s.strip()]
ddl_statements(script) ==
  SelectSeq([i \in DOMAIN SplitOn(script, ";") |-> Strip(SplitOn(script, ";")[i])],
            LAMBDA statement : statement # << >>)

\* ------------------------------------------------------------------------
\* The run log.  A message is a sequence of atoms; " " is white space.  The
\* other fields of an entry (ts, run_id, level, category, the keyword
\* arguments) carry no exception text and are left out.  log_entries is
\* LogOff in the specifications that leave the log out, and << the
\* messages, in order >> in those that follow it.
\* ------------------------------------------------------------------------
PASSWORD == "pg_password"
ACCESS_TOKEN == "okta_token"
REDACTED == "***REDACTED***"
\* str(e) of an exception raised by a driver: the environment's choice
ExceptionTexts ==
  { << "connection", " ", "refused" >>,
    << "invalid", " ", "dsn", " ", "password=", PASSWORD, " ", "host=", "h" >>,
    << "authentication", " ", "failed", " ", "for", " ", PASSWORD >>,
    << "rejected", " ", "token=", ACCESS_TOKEN >>,
    << "body", " ", "\"access_token\"", ":", " ", QUOTE, ACCESS_TOKEN, QUOTE >> }

\* ValueError of execute(): confirm is false; analysis_results is missing
ConfirmRequired == << "Migration execution requires explicit confirmation (confirm=true)" >>
AnalysisMissing == << "Analysis results not available. Run analyze() first." >>

\* ' '.join(words)
RECURSIVE Text(_)
Text(words) ==
  IF Len(words) <= 1 THEN words
  ELSE << Head(words), " " >> \o Text(Tail(words))

\* f'{what} failed: {str(e)}'
Failed(what, e) == Text(what \o << "failed:" >>) \o << " " >> \o e

\* cancel_migration: the message it logs
CancelMessage == Text(<< "Migration", "cancelled", "by", "user" >>)

\* the texts of the messages that are logged without an exception text
InfoTexts ==
  { << "Starting", "PostgreSQL", "analysis" >>,
    << "PostgreSQL", "analysis", "completed" >>,
    << "Generating", "migration", "plan" >>,
    << "Migration", "plan", "generated" >>,
    << "Dry", "run", "completed", "-", "no", "execution" >>,
    << "Awaiting", "confirmation", "to", "execute" >>,
    << "Starting", "migration", "execution" >>,
    << "Executing", "Snowflake", "DDL" >>,
    << "DDL", "execution", "completed" >>,
    << "Migrating", "schema:" >>,
    << "Migration", "execution", "completed" >>,
    << "Starting", "data", "validation" >>,
    << "Validation", "completed" >>,
    << "Generating", "final", "report" >>,
    << "Migration", "finalized" >>,
    << "Migration", "cancelled", "by", "user" >> }

\* the phases that log f'{what} failed: {str(e)}'
FailedWhat ==
  { << "Analysis" >>, << "Planning" >>, << "Execution" >>, << "DDL", "execution" >>,
    << "Validation" >>, << "Finalization" >>, << "Migration" >> }

\* the messages log() is called with
LogMessages ==
  { Text(w) : w \in InfoTexts }
    \cup { Failed(w, e) : w \in FailedWhat,
                          e \in ExceptionTexts \cup {ConfirmRequired, AnalysisMissing} }

LogOff == << >>

\* log(): the entries are appended as they were built
Logged(entries, messages) ==
  IF entries = LogOff THEN LogOff ELSE << entries[1] \o messages >>

\* the exception the except clause of run_complete catches: the one a phase
\* logged and re-raised, or the ValueError execute() raises before its try
Propagated(entries) ==
  IF entries = LogOff THEN { ConfirmRequired }
  ELSE LET logged ==
             { e \in ExceptionTexts \cup {AnalysisMissing} :
                 \E i \in DOMAIN entries[1] : \E w \in FailedWhat :
                    entries[1][i] = Failed(w, e) }
       IN IF logged = {} THEN { ConfirmRequired } ELSE logged

\* the entries cancel_migration has appended
Cancels(entries) ==
  IF entries = LogOff THEN 0
  ELSE Cardinality({ i \in DOMAIN entries[1] : entries[1][i] = CancelMessage })

\* tenacity: the wrapper counts the attempts of a call; kept per table is the
\* most retries (attempts after the first) one of its uploads took
Retried(stats, k, retries) ==
  IF stats = << >> THEN << >>
  ELSE << [stats[1] EXCEPT ![k] = Max({@, retries})] >>

\* ------------------------------------------------------------------------
\* State
\* ------------------------------------------------------------------------
VARIABLES
  request,            \* the MigrationRequest: confirm, dry_run, parallelism, format
  source,             \* the catalog of the source database
  status,             \* orchestrator.status
  analysis_results,   \* orchestrator.analysis_results
  migration_results,  \* orchestrator.migration_results
  validation_results, \* orchestrator.validation_results
  artifacts,          \* files present in artifacts_dir
  pc,                 \* position of the background task in run_complete
  schema_idx,         \* execute: index of the schema being migrated
  open_conns,         \* connections currently open
  ddl_executed,       \* DDL statements executed on the target
  workers,            \* per table: the state of its migrate_table call
  schema_results,     \* migrate_schema: the local list `results`
  loaded_files,       \* pipeline.loader.loaded_files
  cancel_requested,   \* "no", or when the first cancel arrived: "live" / "late"
  ddl_failed,         \* place in the script of the statement that raised, 0: none
  active_migrations,  \* main.py: the run is registered in active_migrations
  dirs,               \* which of artifacts_dir and temp_dir exist
  progress_pc,        \* position of a get_progress call in progress
  progress,           \* get_progress: its locals and the snapshot it builds
  log_entries,        \* self.log_entries: LogOff, or << the message of every entry, in order >>
  generator,          \* SnowflakeGenerator: preferences, the column met, its definition
  run_log,            \* run_log.ndjson: << >> while not written, then << the messages written >>
  retry_statistics,   \* upload_file_to_stage.retry: << >> (not followed), or << per table the most retries
                      \* a successful upload took >>
  started             \* start_migration requests accepted for the run_id

vars ==
  << request, source, status, analysis_results, migration_results,
     validation_results, artifacts, pc, schema_idx, open_conns, ddl_executed,
     workers, schema_results, loaded_files, cancel_requested, ddl_failed,
     active_migrations, dirs, progress_pc, progress, log_entries, run_log,
     generator, retry_statistics, started >>

logVars == << log_entries, run_log >>

progressVars == << progress_pc, progress >>

\* get_progress before its first read
NoProgress ==
  [total_tables |-> 0, completed_tables |-> 0, progress_percent |-> 0,
   branch |-> 0, status |-> None, phase |-> None]

orchVars ==
  << status, analysis_results, migration_results, validation_results, artifacts >>

pipeVars == << workers, schema_results, loaded_files >>

IdleWorker ==
  [pc |-> "idle", file_paths |-> << >>, file_rows |-> << >>,
   uploaded_files |-> << >>, results |-> << >>, idx |-> 0, attempt_number |-> 0]

Requests ==
  [confirm : BOOLEAN, dry_run : BOOLEAN,
   parallelism : 1..MaxParallelism, format : DataFormat]

\* start_migration: the orchestrator is constructed and registered, the
\* background task is queued
RunInit ==
  /\ request \in Requests
  /\ source \in Catalogs
  /\ status = PENDING
  /\ analysis_results = NoAnalysis
  /\ migration_results = << >>
  /\ validation_results = << >>
  /\ artifacts = {}
  /\ pc = "queued"
  /\ schema_idx = 0
  /\ open_conns = {}
  /\ ddl_executed = 0
  /\ workers = [k \in TableKeys(source) |-> IdleWorker]
  /\ schema_results = << >>
  /\ loaded_files = {}
  /\ cancel_requested = "no"
  /\ ddl_failed = 0
  /\ active_migrations = TRUE
  /\ dirs = {"artifacts_dir", "temp_dir"}
  /\ progress_pc = "idle"
  /\ progress = NoProgress
  /\ run_log = << >>
  /\ started = 1

\* preferences as MigrationPreferences defaults them; the log and the
\* statistics of the retry wrapper are left out
Init ==
  /\ RunInit
  /\ log_entries = LogOff
  /\ retry_statistics = << >>
  /\ generator = NewGenerator([use_identity_for_serial |-> TRUE, case_style |-> "UPPER"])

\* the background task has left run_complete
Ended == pc \in {"done", "raised"}

\* ------------------------------------------------------------------------
\* cancel_migration (main.py)
\* ------------------------------------------------------------------------
Cancel ==
  /\ active_migrations
  /\ Cancels(log_entries) < MaxCancels
  /\ status' = CANCELLED
  /\ log_entries' = Logged(log_entries, << CancelMessage >>)
  /\ cancel_requested' =
       IF cancel_requested # "no" THEN cancel_requested
       ELSE IF Ended \/ status \in TerminalStatus THEN "late" ELSE "live"
  /\ UNCHANGED << request, source, analysis_results, migration_results,
                  validation_results, artifacts, pc, schema_idx, open_conns,
                  ddl_executed, ddl_failed, pipeVars, active_migrations, dirs, progressVars, run_log, generator, retry_statistics, started >>

\* ------------------------------------------------------------------------
\* delete_migration (main.py)
\* ------------------------------------------------------------------------
\* a delete_migration that accepts every status
DeleteMigration_AnyStatus(registered, st) ==
  IF ~registered THEN "not_found" ELSE "deleted"

\* delete_migration: 404 for an unknown run, 400 unless the status is
\* COMPLETED, FAILED or CANCELLED
DeleteMigration(registered, st) ==
  IF ~registered THEN "not_found"
  ELSE IF st \notin TerminalStatus THEN "rejected"
  ELSE "deleted"

\* delete_migration: both directories are removed with their files, the run
\* leaves the registry; a refused request changes nothing
Delete ==
  /\ IF DeleteMigration(active_migrations, status) = "deleted"
     THEN /\ artifacts' = {}
          /\ dirs' = {}
          /\ active_migrations' = FALSE
     ELSE UNCHANGED << artifacts, dirs, active_migrations >>
  /\ UNCHANGED << request, source, status, analysis_results, migration_results,
                  validation_results, pc, schema_idx, open_conns, ddl_executed,
                  ddl_failed, pipeVars, cancel_requested, progressVars, logVars, generator, retry_statistics, started >>

\* ------------------------------------------------------------------------
\* run_complete: analyze and plan
\* ------------------------------------------------------------------------
\* analyze(), up to the try block
AnalyzeBegin ==
  /\ pc = "queued"
  /\ log_entries' = Logged(log_entries, << Text(<< "Starting", "PostgreSQL", "analysis" >>) >>)
  /\ status' = ANALYZING
  /\ pc' = "analyzing"
  /\ UNCHANGED << request, source, analysis_results, migration_results,
                  validation_results, artifacts, schema_idx, open_conns,
                  ddl_executed, ddl_failed, pipeVars, cancel_requested, active_migrations, dirs, progressVars, run_log, generator, retry_statistics, started >>

\* analyze(): analyze_complete and save_analysis; the analyzer's connection
\* is opened and closed (finally) inside analyze_complete
AnalyzeRun(outcome) ==
  /\ pc = "analyzing"
  /\ outcome = "ok" => "artifacts_dir" \in dirs
  /\ CASE outcome = "ok" ->
            /\ analysis_results' = << source >>
            /\ artifacts' = artifacts \cup {"analysis_report.json"}
            /\ pc' = "plan"
            /\ log_entries' = Logged(log_entries, << Text(<< "PostgreSQL", "analysis", "completed" >>) >>)
            /\ UNCHANGED status
       [] outcome = "analysis_error" ->
            /\ status' = FAILED
            /\ pc' = "handler"
            /\ \E e \in ExceptionTexts : log_entries' = Logged(log_entries, << Failed(<< "Analysis" >>, e) >>)
            /\ UNCHANGED << analysis_results, artifacts >>
       [] OTHER -> \* save_analysis raised
            /\ analysis_results' = << source >>
            /\ status' = FAILED
            /\ pc' = "handler"
            /\ \E e \in ExceptionTexts : log_entries' = Logged(log_entries, << Failed(<< "Analysis" >>, e) >>)
            /\ UNCHANGED artifacts
  /\ UNCHANGED << request, source, migration_results, validation_results,
                  schema_idx, open_conns, ddl_executed, ddl_failed, pipeVars,
                  cancel_requested, active_migrations, dirs, progressVars, run_log, generator, retry_statistics, started >>

\* plan(), up to the try block
PlanBegin ==
  /\ pc = "plan"
  /\ log_entries' = Logged(log_entries, << Text(<< "Generating", "migration", "plan" >>) >>)
  /\ status' = PLANNING
  /\ pc' = "planning"
  /\ UNCHANGED << request, source, analysis_results, migration_results,
                  validation_results, artifacts, schema_idx, open_conns,
                  ddl_executed, ddl_failed, pipeVars, cancel_requested, active_migrations, dirs, progressVars, run_log, generator, retry_statistics, started >>

\* plan(): the artifacts are written in order; `written` of them are written
\* before a generator or a write raises (all of them: no error)
PlanRun(written) ==
  /\ pc = "planning"
  /\ written > 0 => "artifacts_dir" \in dirs
  /\ artifacts' = artifacts \cup
       {PlanArtifacts[i] : i \in 1..(IF analysis_results = NoAnalysis THEN 0 ELSE written)}
  /\ IF analysis_results # NoAnalysis /\ written = Len(PlanArtifacts)
     THEN /\ status' = AWAITING_CONFIRMATION
          /\ pc' = "gate"
          /\ log_entries' = Logged(log_entries, << Text(<< "Migration", "plan", "generated" >>) >>)
     ELSE /\ status' = FAILED
          /\ pc' = "handler"
          /\ \E e \in ExceptionTexts : log_entries' = Logged(log_entries, << Failed(<< "Planning" >>, e) >>)
  /\ UNCHANGED << request, source, analysis_results, migration_results,
                  validation_results, schema_idx, open_conns, ddl_executed, ddl_failed,
                  pipeVars, cancel_requested, active_migrations, dirs, progressVars, run_log, generator, retry_statistics, started >>

\* run_complete without the branch that waits for confirmation
Gate_NoAwait(req) ==
  IF req.dry_run THEN "dry_run" ELSE "execute"

\* run_complete with confirm checked before dry_run
Gate_ConfirmFirst(req) ==
  IF req.confirm THEN "execute"
  ELSE IF req.dry_run THEN "dry_run" ELSE "await"

\* run_complete: the branch taken after plan() returned
Gate(req) ==
  IF req.dry_run THEN "dry_run"
  ELSE IF req.confirm THEN "execute" ELSE "await"

\* run_complete: `if self.request.preferences.dry_run:` taken
DryRunBranch ==
  /\ pc = "gate"
  /\ Gate(request) = "dry_run"
  /\ status' = COMPLETED
  /\ pc' = "finalize"
  /\ log_entries' = Logged(log_entries, << Text(<< "Dry", "run", "completed", "-", "no", "execution" >>) >>)
  /\ UNCHANGED << request, source, analysis_results, migration_results,
                  validation_results, artifacts, schema_idx, open_conns,
                  ddl_executed, ddl_failed, pipeVars, cancel_requested, active_migrations, dirs, progressVars, run_log, generator, retry_statistics, started >>

\* run_complete: `if self.request.control.confirm:` taken, execute() called
ConfirmBranch ==
  /\ pc = "gate"
  /\ Gate(request) = "execute"
  /\ pc' = "execute"
  /\ UNCHANGED << request, source, orchVars, schema_idx, open_conns,
                  ddl_executed, ddl_failed, pipeVars, cancel_requested, active_migrations, dirs, progressVars, logVars, generator, retry_statistics, started >>

\* run_complete: the else branch returns 'awaiting_confirmation'
AwaitBranch ==
  /\ pc = "gate"
  /\ Gate(request) = "await"
  /\ pc' = "done"
  /\ log_entries' = Logged(log_entries, << Text(<< "Awaiting", "confirmation", "to", "execute" >>) >>)
  /\ UNCHANGED << request, source, orchVars, schema_idx, open_conns,
                  ddl_executed, ddl_failed, pipeVars, cancel_requested, active_migrations, dirs, progressVars, run_log, generator, retry_statistics, started >>

\* ------------------------------------------------------------------------
\* run_complete: execute
\* ------------------------------------------------------------------------
\* execute(): the confirmation check, then the status is set before the try
ExecuteBegin ==
  /\ pc = "execute"
  /\ IF ~request.confirm
     THEN /\ pc' = "handler"
          /\ UNCHANGED << status, log_entries >>
     ELSE /\ status' = EXECUTING
          /\ pc' = "ddl"
          /\ log_entries' = Logged(log_entries, << Text(<< "Starting", "migration", "execution" >>) >>)
  /\ UNCHANGED << request, source, analysis_results, migration_results,
                  validation_results, artifacts, schema_idx, open_conns,
                  ddl_executed, ddl_failed, pipeVars, cancel_requested, active_migrations, dirs, progressVars, run_log, generator, retry_statistics, started >>

\* an execute_ddl_script that skips a failing statement and goes on
ExecuteDdlScript_SkipFailing(statements, outcome) ==
  [raised |-> FALSE,
   executed |-> IF outcome < statements THEN statements - 1 ELSE statements,
   failed |-> IF outcome < statements THEN outcome + 1 ELSE 0]

\* execute_ddl_script: the statements are executed in script order until
\* one raises; outcome: how many succeed before that (all: none raises)
ExecuteDdlScript(statements, outcome) ==
  IF outcome < statements
  THEN [raised |-> TRUE, executed |-> outcome, failed |-> outcome + 1]
  ELSE [raised |-> FALSE, executed |-> statements, failed |-> 0]

\* _execute_ddl(): a loader of its own connects, snowflake_objects.sql is
\* read and its statements are run; connect_ok: loader.connect() succeeds;
\* loader.disconnect() is reached only when nothing raised.
ExecuteDDL(connect_ok, outcome) ==
  /\ pc = "ddl"
  /\ IF analysis_results = NoAnalysis \/ ~connect_ok
     THEN /\ status' = FAILED
          /\ pc' = "handler"
          /\ IF analysis_results = NoAnalysis
             THEN log_entries' = Logged(log_entries, << Failed(<< "Execution" >>, AnalysisMissing) >>)
             ELSE \E e \in ExceptionTexts : log_entries' = Logged(log_entries, << Text(<< "Executing", "Snowflake", "DDL" >>), Failed(<< "DDL", "execution" >>, e), Failed(<< "Execution" >>, e) >>)
          /\ UNCHANGED << open_conns, ddl_executed, ddl_failed, schema_idx >>
     ELSE IF "snowflake_objects.sql" \notin artifacts
     THEN /\ open_conns' = open_conns \cup {"ddl_sf"}
          /\ status' = FAILED
          /\ pc' = "handler"
          /\ \E e \in ExceptionTexts : log_entries' = Logged(log_entries, << Text(<< "Executing", "Snowflake", "DDL" >>), Failed(<< "DDL", "execution" >>, e), Failed(<< "Execution" >>, e) >>)
          /\ UNCHANGED << ddl_executed, ddl_failed, schema_idx >>
     ELSE LET r == ExecuteDdlScript(NumDDL(Schemas(analysis_results)), outcome)
          IN /\ ddl_executed' = r.executed
             /\ ddl_failed' = r.failed
             /\ IF r.raised
                THEN /\ open_conns' = open_conns \cup {"ddl_sf"}
                     /\ status' = FAILED
                     /\ pc' = "handler"
                     /\ \E e \in ExceptionTexts : log_entries' = Logged(log_entries, << Text(<< "Executing", "Snowflake", "DDL" >>), Failed(<< "DDL", "execution" >>, e), Failed(<< "Execution" >>, e) >>)
                     /\ UNCHANGED schema_idx
                ELSE /\ schema_idx' = 1
                     /\ pc' = "schema"
                     /\ log_entries' = Logged(log_entries, << Text(<< "Executing", "Snowflake", "DDL" >>), Text(<< "DDL", "execution", "completed" >>) >>)
                     /\ UNCHANGED << open_conns, status >>
  /\ UNCHANGED << request, source, analysis_results, migration_results,
                  validation_results, artifacts, pipeVars, cancel_requested,
                  active_migrations, dirs, progressVars, run_log, generator, retry_statistics, started >>

SchemaTables(si) == {k \in DOMAIN workers : k[1] = si}

\* migrate_table runs on self.extractor and self.loader of the pipeline:
\* the connection the migration of table k reads from, and the one it loads
\* through
ExtractorConn(k) == "extractor_pg"

LoaderConn(k) == "loader_sf"

\* execute(): next iteration of the loop over schemas; migrate_schema
\* connects the extractor, then the loader, and submits every table
MigrateSchemaBegin(outcome) ==
  /\ pc = "schema"
  /\ schema_idx <= Len(Schemas(analysis_results))
  /\ CASE outcome = "ok" ->
            /\ open_conns' = open_conns \cup {"extractor_pg", "loader_sf"}
            /\ workers' = [k \in DOMAIN workers |->
                 IF k[1] = schema_idx THEN [IdleWorker EXCEPT !.pc = "queued"]
                 ELSE workers[k]]
            /\ schema_results' = << >>
            /\ pc' = "migrating"
            /\ log_entries' = Logged(log_entries, << Text(<< "Migrating", "schema:" >>) \o << " " >> \o Schemas(analysis_results)[schema_idx].schema_name >>)
            /\ UNCHANGED status
       [] outcome = "pg_connect_error" ->
            /\ status' = FAILED
            /\ pc' = "handler"
            /\ \E e \in ExceptionTexts : log_entries' = Logged(log_entries, << Text(<< "Migrating", "schema:" >>) \o << " " >> \o Schemas(analysis_results)[schema_idx].schema_name, Failed(<< "Execution" >>, e) >>)
            /\ UNCHANGED << open_conns, workers, schema_results >>
       [] OTHER -> \* loader.connect() raised: the extractor stays connected
            /\ open_conns' = open_conns \cup {"extractor_pg"}
            /\ status' = FAILED
            /\ pc' = "handler"
            /\ \E e \in ExceptionTexts : log_entries' = Logged(log_entries, << Text(<< "Migrating", "schema:" >>) \o << " " >> \o Schemas(analysis_results)[schema_idx].schema_name, Failed(<< "Execution" >>, e) >>)
            /\ UNCHANGED << workers, schema_results >>
  /\ UNCHANGED << request, source, analysis_results, migration_results,
                  validation_results, artifacts, schema_idx, ddl_executed, ddl_failed,
                  loaded_files, cancel_requested, active_migrations, dirs, progressVars, run_log, generator, retry_statistics, started >>

\* a pool that never counts a table as running
Running_None(si) == {}

\* the tables of schema si a worker thread is busy with
Running(si) ==
  {k \in SchemaTables(si) :
     workers[k].pc \in {"extract", "upload", "copy", "aggregate"}}

\* ThreadPoolExecutor(max_workers=parallelism): a free worker thread takes
\* the oldest submitted table
StartTable(k) ==
  /\ pc = "migrating"
  /\ k[1] = schema_idx
  /\ workers[k].pc = "queued"
  /\ \A j \in SchemaTables(schema_idx) : j[2] < k[2] => workers[j].pc # "queued"
  /\ Cardinality(Running(schema_idx)) < request.parallelism
  /\ workers' = [workers EXCEPT ![k].pc = "extract"]
  /\ UNCHANGED << request, source, orchVars, pc, schema_idx, open_conns,
                  ddl_executed, ddl_failed, schema_results, loaded_files, cancel_requested, active_migrations, dirs, progressVars, logVars, generator, retry_statistics, started >>

\* a load_table that starts the COPY loop as soon as one file is staged
Advance_CopyAfterFirstPut(w) ==
  LET u == IF w.pc = "upload" /\ (w.idx > Len(w.file_paths) \/ w.uploaded_files # << >>)
           THEN [w EXCEPT !.pc = "copy", !.idx = 1] ELSE w
  IN IF u.pc = "copy" /\ u.idx > Len(u.uploaded_files)
     THEN [u EXCEPT !.pc = "aggregate", !.idx = 0] ELSE u

\* load_table: leave the upload loop, and the COPY loop, when exhausted
Advance(w) ==
  LET u == IF w.pc = "upload" /\ w.idx > Len(w.file_paths)
           THEN [w EXCEPT !.pc = "copy", !.idx = 1] ELSE w
  IN IF u.pc = "copy" /\ u.idx > Len(u.uploaded_files)
     THEN [u EXCEPT !.pc = "aggregate", !.idx = 0] ELSE u

DoneWorker == [IdleWorker EXCEPT !.pc = "done"]

\* migrate_table: extractor.extract_table; ok: neither the cursor nor a
\* file write raises; outcome: the number of rows the cursor yields
ExtractStep(k, ok, outcome) ==
  /\ pc = "migrating"
  /\ workers[k].pc = "extract"
  /\ (ok /\ outcome > 0) => "temp_dir" \in dirs
  /\ IF ~ok
     THEN /\ workers' = [workers EXCEPT ![k] = DoneWorker]
          /\ schema_results' = Append(schema_results,
               TableFailed(SchemaName(Schemas(analysis_results), k),
                           TableName(Schemas(analysis_results), k)))
     ELSE /\ workers' = [workers EXCEPT ![k] = Advance(
               [@ EXCEPT !.pc = "upload", !.idx = 1,
                  !.file_paths = ExtractedPaths(SchemaName(Schemas(analysis_results), k),
                                   TableName(Schemas(analysis_results), k),
                                   request.format, outcome),
                  !.file_rows = ExtractTable(request.format, outcome)])]
          /\ UNCHANGED schema_results
  /\ UNCHANGED << request, source, orchVars, pc, schema_idx, open_conns,
                  ddl_executed, ddl_failed, loaded_files, cancel_requested, active_migrations, dirs, progressVars, logVars, generator, retry_statistics, started >>

\* load_table, upload loop: one attempt of upload_file_to_stage for the
\* current file, under the retry wrapper
PutAttempt(k, put_ok) ==
  /\ pc = "migrating"
  /\ workers[k].pc = "upload"
  /\ put_ok => "temp_dir" \in dirs
  /\ LET w == workers[k]
         file_path == w.file_paths[w.idx]
         attempt == w.attempt_number + 1
         r == UploadBody(file_path, put_ok)
     IN workers' = [workers EXCEPT ![k] =
          IF ShouldRetry(r.raised, attempt)
          THEN [w EXCEPT !.attempt_number = attempt]
          ELSE IF r.raised
          THEN Advance([w EXCEPT !.results = Append(@, UploadFailed(file_path)),
                                 !.idx = @ + 1, !.attempt_number = 0])
          ELSE Advance([w EXCEPT !.uploaded_files = Append(@, r.value),
                                 !.idx = @ + 1, !.attempt_number = 0])]
  /\ retry_statistics' =
       LET attempt == workers[k].attempt_number + 1
       IN IF put_ok THEN Retried(retry_statistics, k, attempt - 1) ELSE retry_statistics
  /\ UNCHANGED << request, source, orchVars, pc, schema_idx, open_conns,
                  ddl_executed, ddl_failed, schema_results, loaded_files, cancel_requested, active_migrations, dirs, progressVars, logVars, generator, started >>

\* rows in the staged file `name` of this table
RowsOfStaged(w, name) ==
  LET i == CHOOSE j \in DOMAIN w.file_paths : Basename(w.file_paths[j]) = name
  IN w.file_rows[i]

\* load_table without the idempotency check
SkipsCopy_Never(staged_file, loaded) == FALSE

\* load_table: `if staged_file in self.loaded_files: continue`
SkipsCopy(staged_file, loaded) == staged_file \in loaded

\* load_table, COPY loop: the idempotency check, then one attempt of
\* copy_into_table for the current staged file, under the retry wrapper
CopyAttempt(k, outcome) ==
  /\ pc = "migrating"
  /\ workers[k].pc = "copy"
  /\ LET w == workers[k]
         staged_file == w.uploaded_files[w.idx]
         attempt == w.attempt_number + 1
         r == CopyBody(staged_file, RowsOfStaged(w, staged_file), outcome)
     IN IF w.attempt_number = 0 /\ SkipsCopy(staged_file, loaded_files)
        THEN /\ workers' = [workers EXCEPT ![k] = Advance([w EXCEPT !.idx = @ + 1])]
             /\ UNCHANGED loaded_files
        ELSE IF ShouldRetry(r.raised, attempt)
        THEN /\ workers' = [workers EXCEPT ![k].attempt_number = attempt]
             /\ UNCHANGED loaded_files
        ELSE /\ workers' = [workers EXCEPT ![k] =
                  Advance([w EXCEPT !.results = Append(@, r.value),
                                    !.idx = @ + 1, !.attempt_number = 0])]
             /\ loaded_files' = IF r.value.status = "success"
                                THEN loaded_files \cup {staged_file}
                                ELSE loaded_files
  /\ UNCHANGED << request, source, orchVars, pc, schema_idx, open_conns,
                  ddl_executed, ddl_failed, schema_results, cancel_requested, active_migrations, dirs, progressVars, logVars, generator, retry_statistics, started >>

\* migrate_table: aggregate and return; as_completed hands the result to
\* migrate_schema, which appends it
FinishTable(k) ==
  /\ pc = "migrating"
  /\ workers[k].pc = "aggregate"
  /\ schema_results' = Append(schema_results,
       TableCompleted(SchemaName(Schemas(analysis_results), k),
                      TableName(Schemas(analysis_results), k),
                      workers[k].file_paths, workers[k].results))
  /\ workers' = [workers EXCEPT ![k] = DoneWorker]
  /\ UNCHANGED << request, source, orchVars, pc, schema_idx, open_conns,
                  ddl_executed, ddl_failed, loaded_files, cancel_requested, active_migrations, dirs, progressVars, logVars, generator, retry_statistics, started >>

\* migrate_schema returns: the pool is drained, both connections are closed
\* (finally), execute extends migration_results
MigrateSchemaEnd ==
  /\ pc = "migrating"
  /\ \A k \in SchemaTables(schema_idx) : workers[k].pc = "done"
  /\ open_conns' = open_conns \ {"extractor_pg", "loader_sf"}
  /\ migration_results' = migration_results \o schema_results
  /\ schema_results' = << >>
  /\ schema_idx' = schema_idx + 1
  /\ pc' = "schema"
  /\ UNCHANGED << request, source, status, analysis_results,
                  validation_results, artifacts, ddl_executed, ddl_failed, workers,
                  loaded_files, cancel_requested, active_migrations, dirs, progressVars, logVars, generator, retry_statistics, started >>

\* execute(): the loop over schemas is exhausted, execute returns
ExecuteEnd ==
  /\ pc = "schema"
  /\ schema_idx > Len(Schemas(analysis_results))
  /\ pc' = "validate"
  /\ log_entries' = Logged(log_entries, << Text(<< "Migration", "execution", "completed" >>) >>)
  /\ UNCHANGED << request, source, orchVars, schema_idx, open_conns,
                  ddl_executed, ddl_failed, pipeVars, cancel_requested, active_migrations, dirs, progressVars, run_log, generator, retry_statistics, started >>

\* ------------------------------------------------------------------------
\* run_complete: validate, finalize, the except clause
\* ------------------------------------------------------------------------
\* validate(), up to the try block
ValidateBegin ==
  /\ pc = "validate"
  /\ status' = VALIDATING
  /\ pc' = "validating"
  /\ log_entries' = Logged(log_entries, << Text(<< "Starting", "data", "validation" >>) >>)
  /\ UNCHANGED << request, source, analysis_results, migration_results,
                  validation_results, artifacts, schema_idx, open_conns,
                  ddl_executed, ddl_failed, pipeVars, cancel_requested, active_migrations, dirs, progressVars, run_log, generator, retry_statistics, started >>

\* validate(): connect, validate every migrated table, disconnect; every
\* exception is caught and validate returns
ValidateRun(outcome) ==
  /\ pc = "validating"
  /\ CASE outcome = "pg_connect_error" ->
            /\ \E e \in ExceptionTexts : log_entries' = Logged(log_entries, << Failed(<< "Validation" >>, e) >>)
            /\ UNCHANGED << validation_results, open_conns >>
       [] outcome = "sf_connect_error" ->
            /\ open_conns' = open_conns \cup {"validator_pg"}
            /\ \E e \in ExceptionTexts : log_entries' = Logged(log_entries, << Failed(<< "Validation" >>, e) >>)
            /\ UNCHANGED validation_results
       [] OTHER ->
            /\ validation_results' = validation_results \o
                 ValidateLoop(Schemas(analysis_results), migration_results, outcome, 1, 1)
            /\ log_entries' = Logged(log_entries, << Text(<< "Validation", "completed" >>) >>)
            /\ UNCHANGED open_conns
  /\ pc' = "finalize"
  /\ UNCHANGED << request, source, status, analysis_results, migration_results,
                  artifacts, schema_idx, ddl_executed, ddl_failed, pipeVars,
                  cancel_requested, active_migrations, dirs, progressVars, run_log, generator, retry_statistics, started >>

\* finalize: len([r for r in migration_results if r.get('status') == 'failed'])
FailedCount(results) ==
  Cardinality({i \in DOMAIN results : Get(results[i], "status", None) = "failed"})

\* a finalize that also fails the run on a validation FAIL or ERROR
FinalStatus_WithValidation(results) ==
  IF /\ FailedCount(results) = 0
     /\ \A i \in DOMAIN validation_results :
           validation_results[i].status \in {"PASS", "SKIP"}
  THEN COMPLETED ELSE FAILED

\* finalize: the status set from the migration results
FinalStatus(results) == IF FailedCount(results) = 0 THEN COMPLETED ELSE FAILED

\* finalize(): summary.md, save_log, then the status
Finalize(outcome) ==
  /\ pc = "finalize"
  /\ outcome # "summary_error" => "artifacts_dir" \in dirs
  /\ CASE outcome = "ok" ->
            /\ artifacts' = artifacts \cup {"summary.md", "run_log.ndjson"}
            /\ status' = FinalStatus(migration_results)
            /\ pc' = "done"
            /\ run_log' = Logged(log_entries, << Text(<< "Generating", "final", "report" >>) >>)
            /\ log_entries' = Logged(log_entries, << Text(<< "Generating", "final", "report" >>), Text(<< "Migration", "finalized" >>) >>)
       [] outcome = "summary_error" ->
            /\ pc' = "handler"
            /\ \E e \in ExceptionTexts : log_entries' = Logged(log_entries, << Text(<< "Generating", "final", "report" >>), Failed(<< "Finalization" >>, e) >>)
            /\ UNCHANGED << artifacts, status, run_log >>
       [] OTHER -> \* save_log raised
            /\ artifacts' = artifacts \cup {"summary.md"}
            /\ pc' = "handler"
            /\ \E e \in ExceptionTexts : log_entries' = Logged(log_entries, << Text(<< "Generating", "final", "report" >>), Failed(<< "Finalization" >>, e) >>)
            /\ UNCHANGED << status, run_log >>
  /\ UNCHANGED << request, source, analysis_results, migration_results,
                  validation_results, schema_idx, open_conns, ddl_executed, ddl_failed,
                  pipeVars, cancel_requested, active_migrations, dirs, progressVars, generator, retry_statistics, started >>

\* run_complete, except clause: FAILED, save_log, re-raise; save_error:
\* writing run_log.ndjson raises
Handler(save_error) ==
  /\ pc = "handler"
  /\ ~save_error => "artifacts_dir" \in dirs
  /\ status' = FAILED
  /\ artifacts' = IF save_error THEN artifacts ELSE artifacts \cup {"run_log.ndjson"}
  /\ pc' = "raised"
  /\ \E e \in Propagated(log_entries) :
       /\ log_entries' = Logged(log_entries, << Failed(<< "Migration" >>, e) >>)
       /\ run_log' = IF save_error THEN run_log ELSE log_entries'
  /\ UNCHANGED << request, source, analysis_results, migration_results,
                  validation_results, schema_idx, open_conns, ddl_executed, ddl_failed,
                  pipeVars, cancel_requested, active_migrations, dirs, progressVars, generator, retry_statistics, started >>

\* ------------------------------------------------------------------------
\* Specification
\* ------------------------------------------------------------------------
Next ==
  \/ Cancel
  \/ Delete
  \/ AnalyzeBegin
  \/ \E o \in {"ok", "analysis_error", "save_error"} : AnalyzeRun(o)
  \/ PlanBegin
  \/ \E n \in 0..Len(PlanArtifacts) : PlanRun(n)
  \/ DryRunBranch
  \/ ConfirmBranch
  \/ AwaitBranch
  \/ ExecuteBegin
  \/ \E ok \in BOOLEAN : \E n \in 0..NumDDL(source) : ExecuteDDL(ok, n)
  \/ \E o \in {"ok", "pg_connect_error", "sf_connect_error"} : MigrateSchemaBegin(o)
  \/ \E k \in DOMAIN workers : StartTable(k)
  \/ \E k \in DOMAIN workers : \E ok \in BOOLEAN : \E n \in 0..MaxRows :
        ExtractStep(k, ok, n)
  \/ \E k \in DOMAIN workers : \E ok \in BOOLEAN : PutAttempt(k, ok)
  \/ \E k \in DOMAIN workers : \E o \in CopyOutcomes : CopyAttempt(k, o)
  \/ \E k \in DOMAIN workers : FinishTable(k)
  \/ MigrateSchemaEnd
  \/ ExecuteEnd
  \/ ValidateBegin
  \/ \E o \in {"pg_connect_error", "sf_connect_error"} \cup ValidationEnvs : ValidateRun(o)
  \/ \E o \in {"ok", "summary_error", "save_log_error"} : Finalize(o)
  \/ \E err \in BOOLEAN : Handler(err)

Spec == Init /\ [][Next]_vars

\* every table of the catalogs explored
AllKeys == UNION {TableKeys(cat) : cat \in Catalogs}

\* one step of the thread pool for table k: a free thread takes it, or the
\* thread that runs its migrate_table goes on
WorkerStep(k) ==
  /\ k \in DOMAIN workers
  /\ \/ StartTable(k)
     \/ \E ok \in BOOLEAN : \E n \in 0..MaxRows : ExtractStep(k, ok, n)
     \/ \E ok \in BOOLEAN : PutAttempt(k, ok)
     \/ \E o \in CopyOutcomes : CopyAttempt(k, o)
     \/ FinishTable(k)

\* execute() enters its loop over the schemas: analysis, planning and DDL
\* succeeded, nothing was cancelled
PoolInit ==
  /\ request \in {r \in Requests : r.confirm /\ ~r.dry_run}
  /\ source \in Catalogs \ {CatalogEmpty}
  /\ status = EXECUTING
  /\ analysis_results = << source >>
  /\ migration_results = << >>
  /\ validation_results = << >>
  /\ artifacts = PlanningArtifacts
  /\ pc = "schema"
  /\ schema_idx = 1
  /\ open_conns = {}
  /\ ddl_executed = NumDDL(source)
  /\ workers = [k \in TableKeys(source) |-> IdleWorker]
  /\ schema_results = << >>
  /\ loaded_files = {}
  /\ cancel_requested = "no"
  /\ ddl_failed = 0
  /\ active_migrations = TRUE
  /\ dirs = {"artifacts_dir", "temp_dir"}
  /\ progress_pc = "idle"
  /\ progress = NoProgress
  /\ log_entries = LogOff
  /\ run_log = << >>
  /\ retry_statistics = << >>
  /\ started = 1
  /\ generator = NewGenerator([use_identity_for_serial |-> TRUE, case_style |-> "UPPER"])

\* the steps taken while execute() is in its loop over the schemas
PoolNext ==
  \/ Cancel
  \/ Delete
  \/ \E o \in {"ok", "pg_connect_error", "sf_connect_error"} : MigrateSchemaBegin(o)
  \/ \E k \in AllKeys : WorkerStep(k)
  \/ MigrateSchemaEnd

\* the threads of the pool are scheduled, and every database call returns
LiveSpec ==
  PoolInit /\ [][PoolNext]_vars /\ \A k \in AllKeys : WF_vars(WorkerStep(k))

TypeOK ==
  /\ status \in MigrationStatus
  /\ pc \in {"queued", "analyzing", "plan", "planning", "gate", "execute",
             "ddl", "schema", "migrating", "validate", "validating",
             "finalize", "handler", "done", "raised"}
  /\ cancel_requested \in {"no", "live", "late"}
  /\ active_migrations \in BOOLEAN
  /\ dirs \in {{}, {"artifacts_dir", "temp_dir"}}
  /\ ddl_failed \in 0..NumDDL(source)
  /\ \A k \in DOMAIN workers : workers[k].attempt_number < StopAfterAttempt
  /\ progress_pc \in {"idle", "completed", "percent", "status", "phase", "returned"}
  /\ progress.status \in MigrationStatus \cup {None}
  /\ progress.phase \in MigrationStatus \cup {None}

\* ------------------------------------------------------------------------
\* GET /progress while the background task runs: get_progress takes no lock,
\* each read of an attribute of the orchestrator is a step of its own
\* ------------------------------------------------------------------------
runVars ==
  << request, source, orchVars, pc, schema_idx, open_conns, ddl_executed,
     ddl_failed, pipeVars, cancel_requested, active_migrations, dirs >>

\* the statuses of the if / elif chain, in its order
ProgressBranches ==
  << ANALYZING, PLANNING, AWAITING_CONFIRMATION, EXECUTING, VALIDATING, COMPLETED >>

\* the endpoint finds the run; total_tables is read from analysis_results
GetProgressBegin ==
  /\ progress_pc \in {"idle", "returned"}
  /\ active_migrations
  /\ progress' = [NoProgress EXCEPT !.total_tables = TotalTables(analysis_results)]
  /\ progress_pc' = "completed"
  /\ UNCHANGED << runVars, logVars, generator, retry_statistics, started >>

\* completed_tables is read from migration_results; `if total_tables > 0`
GetProgressCompleted ==
  /\ progress_pc = "completed"
  /\ progress' = [progress EXCEPT
       !.completed_tables = CompletedTables(migration_results),
       !.branch = 1]
  /\ progress_pc' = IF progress.total_tables > 0 THEN "percent" ELSE "status"
  /\ UNCHANGED << runVars, logVars, generator, retry_statistics, started >>

\* one comparison of the if / elif chain: self.status is read again
GetProgressCompare ==
  /\ progress_pc = "percent"
  /\ IF status = ProgressBranches[progress.branch]
     THEN /\ progress' = [progress EXCEPT !.progress_percent =
               ProgressPercent(status, progress.completed_tables,
                               progress.total_tables)]
          /\ progress_pc' = "status"
     ELSE IF progress.branch = Len(ProgressBranches)
     THEN /\ progress_pc' = "status"
          /\ UNCHANGED progress
     ELSE /\ progress' = [progress EXCEPT !.branch = @ + 1]
          /\ UNCHANGED progress_pc
  /\ UNCHANGED << runVars, logVars, generator, retry_statistics, started >>

\* MigrationProgress(status=self.status, ...
GetProgressStatus ==
  /\ progress_pc = "status"
  /\ progress' = [progress EXCEPT !.status = status]
  /\ progress_pc' = "phase"
  /\ UNCHANGED << runVars, logVars, generator, retry_statistics, started >>

\* ... phase=self.status.value, ...): the snapshot is returned
GetProgressPhase ==
  /\ progress_pc = "phase"
  /\ progress' = [progress EXCEPT !.phase = status]
  /\ progress_pc' = "returned"
  /\ UNCHANGED << runVars, logVars, generator, retry_statistics, started >>

\* a run that is not confirmed, or a dry run
ProgressInit ==
  /\ Init
  /\ request.dry_run \/ ~request.confirm
  /\ request.parallelism = 1
  /\ request.format = "CSV"

\* the steps of such a run, of cancel_migration and of get_progress
ProgressNext ==
  \/ Cancel
  \/ AnalyzeBegin
  \/ \E o \in {"ok", "analysis_error", "save_error"} : AnalyzeRun(o)
  \/ PlanBegin
  \/ \E n \in 0..Len(PlanArtifacts) : PlanRun(n)
  \/ DryRunBranch
  \/ AwaitBranch
  \/ \E o \in {"ok", "summary_error", "save_log_error"} : Finalize(o)
  \/ \E err \in BOOLEAN : Handler(err)
  \/ GetProgressBegin
  \/ GetProgressCompleted
  \/ GetProgressCompare
  \/ GetProgressStatus
  \/ GetProgressPhase

ProgressSpec == ProgressInit /\ [][ProgressNext]_vars

\* ------------------------------------------------------------------------
\* logger.py: the redactor of the structlog stream
\* ------------------------------------------------------------------------
Atoms ==
  UNION { Range(m) : m \in LogMessages } \cup { "&", "\"password\"", REDACTED }

\* the patterns, in the order they are applied (all atoms are lower case, so
\* IGNORECASE changes nothing here)
REDACTION_PATTERNS ==
  << [kind |-> "json", key |-> "\"password\"",
      repl |-> << "\"password\"", ":", " ", QUOTE, REDACTED, QUOTE >>],
     [kind |-> "json", key |-> "\"access_token\"",
      repl |-> << "\"access_token\"", ":", " ", QUOTE, REDACTED, QUOTE >>],
     [kind |-> "kv", key |-> "password=", repl |-> << "password=", REDACTED >>],
     [kind |-> "kv", key |-> "token=", repl |-> << "token=", REDACTED >>] >>

\* the first index from i on whose atom is not in S
RECURSIVE SkipWhile(_, _, _)
SkipWhile(msg, i, S) ==
  IF i <= Len(msg) /\ msg[i] \in S THEN SkipWhile(msg, i + 1, S) ELSE i

\* the index after a match of pattern p that starts at i, or 0
Match(p, msg, i) ==
  IF msg[i] # p.key THEN 0
  ELSE IF p.kind = "kv"
  THEN LET j == SkipWhile(msg, i + 1, Atoms \ {" ", "&"})
       IN IF j > i + 1 THEN j ELSE 0
  ELSE LET colon == SkipWhile(msg, i + 1, {" "})
           open == SkipWhile(msg, colon + 1, {" "})
           close == SkipWhile(msg, open + 1, Atoms \ {QUOTE})
       IN IF /\ colon <= Len(msg) /\ msg[colon] = ":"
             /\ open <= Len(msg) /\ msg[open] = QUOTE
             /\ close <= Len(msg)
          THEN close + 1 ELSE 0

\* pattern.sub(replacement, msg), scanning from i
RECURSIVE Sub(_, _, _)
Sub(p, msg, i) ==
  IF i > Len(msg) THEN << >>
  ELSE LET e == Match(p, msg, i)
       IN IF e = 0 THEN << msg[i] >> \o Sub(p, msg, i + 1)
          ELSE p.repl \o Sub(p, msg, e)

RECURSIVE RedactFrom(_, _)
RedactFrom(msg, n) ==
  IF n > Len(REDACTION_PATTERNS) THEN msg
  ELSE RedactFrom(Sub(REDACTION_PATTERNS[n], msg, 1), n + 1)

redact_sensitive_data(msg) == RedactFrom(msg, 1)

\* ------------------------------------------------------------------------
\* The runs whose log is followed: CSV requests, confirmed or not, dry run or
\* not, on a source without schemas
\* ------------------------------------------------------------------------
LogInit ==
  /\ RunInit
  /\ log_entries = << << >> >>
  /\ retry_statistics = << >>
  /\ request.parallelism = 1
  /\ request.format = "CSV"
  /\ generator = NewGenerator([use_identity_for_serial |-> TRUE, case_style |-> "UPPER"])
  /\ source = CatalogEmpty

LogNext ==
  \/ Cancel
  \/ AnalyzeBegin
  \/ \E o \in {"ok", "analysis_error", "save_error"} : AnalyzeRun(o)
  \/ PlanBegin
  \/ \E n \in 0..Len(PlanArtifacts) : PlanRun(n)
  \/ DryRunBranch
  \/ ConfirmBranch
  \/ AwaitBranch
  \/ ExecuteBegin
  \/ \E ok \in BOOLEAN : \E n \in 0..NumDDL(source) : ExecuteDDL(ok, n)
  \/ ExecuteEnd
  \/ ValidateBegin
  \/ \E o \in {"pg_connect_error", "sf_connect_error"} \cup ValidationEnvs : ValidateRun(o)
  \/ \E o \in {"ok", "summary_error", "save_log_error"} : Finalize(o)
  \/ \E err \in BOOLEAN : Handler(err)

LogSpec == LogInit /\ [][LogNext]_vars

\* ------------------------------------------------------------------------
\* The runs whose upload retries are followed: confirmed runs, one table per
\* schema
\* ------------------------------------------------------------------------
RetryInit ==
  /\ RunInit
  /\ log_entries = LogOff
  /\ generator = NewGenerator([use_identity_for_serial |-> TRUE, case_style |-> "UPPER"])
  /\ request = [confirm |-> TRUE, dry_run |-> FALSE, parallelism |-> 1, format |-> "CSV"]
  /\ source = CatalogTwoSchemas
  /\ retry_statistics = << [k \in TableKeys(source) |-> 0] >>

RetryNext ==
  \/ AnalyzeBegin
  \/ \E o \in {"ok", "analysis_error", "save_error"} : AnalyzeRun(o)
  \/ PlanBegin
  \/ \E n \in 0..Len(PlanArtifacts) : PlanRun(n)
  \/ ConfirmBranch
  \/ ExecuteBegin
  \/ \E ok \in BOOLEAN : \E n \in 0..NumDDL(source) : ExecuteDDL(ok, n)
  \/ \E o \in {"ok", "pg_connect_error", "sf_connect_error"} : MigrateSchemaBegin(o)
  \/ \E k \in DOMAIN workers : StartTable(k)
  \/ \E k \in DOMAIN workers : \E ok \in BOOLEAN : \E n \in 0..MaxRows :
        ExtractStep(k, ok, n)
  \/ \E k \in DOMAIN workers : \E ok \in BOOLEAN : PutAttempt(k, ok)
  \/ \E k \in DOMAIN workers : \E o \in CopyOutcomes : CopyAttempt(k, o)
  \/ \E k \in DOMAIN workers : FinishTable(k)
  \/ MigrateSchemaEnd
  \/ ExecuteEnd
  \/ ValidateBegin
  \/ \E o \in {"pg_connect_error", "sf_connect_error"} \cup ValidationEnvs : ValidateRun(o)
  \/ \E o \in {"ok", "summary_error", "save_log_error"} : Finalize(o)
  \/ \E err \in BOOLEAN : Handler(err)

RetrySpec == RetryInit /\ [][RetryNext]_vars

\* ------------------------------------------------------------------------
\* start_migration called again with the control.run_id of the run: a new
\* orchestrator is constructed on the same two directories (makedirs with
\* exist_ok), it takes the place of the registered one, and a background
\* task is queued for it.  The task of the orchestrator followed here goes on.
\* ------------------------------------------------------------------------
StartMigration ==
  /\ started < MaxStarts
  /\ started' = started + 1
  /\ active_migrations' = TRUE
  /\ dirs' = {"artifacts_dir", "temp_dir"}
  /\ UNCHANGED << request, source, orchVars, pc, schema_idx, open_conns,
                  ddl_executed, ddl_failed, pipeVars, cancel_requested,
                  progressVars, logVars, generator, retry_statistics >>

\* the runs of every request on a source without schemas
StartInit ==
  /\ Init
  /\ source = CatalogEmpty

StartNext ==
  \/ StartMigration
  \/ AnalyzeBegin
  \/ \E o \in {"ok", "analysis_error", "save_error"} : AnalyzeRun(o)
  \/ PlanBegin
  \/ \E n \in 0..Len(PlanArtifacts) : PlanRun(n)
  \/ DryRunBranch
  \/ ConfirmBranch
  \/ AwaitBranch
  \/ ExecuteBegin
  \/ \E ok \in BOOLEAN : \E n \in 0..NumDDL(source) : ExecuteDDL(ok, n)
  \/ ExecuteEnd
  \/ ValidateBegin
  \/ \E o \in {"pg_connect_error", "sf_connect_error"} \cup ValidationEnvs : ValidateRun(o)
  \/ \E o \in {"ok", "summary_error", "save_log_error"} : Finalize(o)
  \/ \E err \in BOOLEAN : Handler(err)

StartSpec == StartInit /\ [][StartNext]_vars

\* ------------------------------------------------------------------------
\* plan(): SnowflakeGenerator.generate_table_ddl on the table public.orders
\* with one column
\* ------------------------------------------------------------------------
GenerateTableDDL(column_name, t, d) ==
  /\ generator.col_def = << >>
  /\ LET col == Column(column_name, t, d)
         table_name == << "o", "r", "d", "e", "r", "s" >>
     IN generator' = [generator EXCEPT
          !.table_name = table_name,
          !.full_table_name =
             << quote_identifier(generator.preferences.case_style, SchemaPublic),
                quote_identifier(generator.preferences.case_style, table_name) >>,
          !.col = << col >>,
          !.col_def = << ColumnDef(generator.preferences, SchemaPublic, col) >>]
  /\ UNCHANGED << runVars, progressVars, logVars, retry_statistics, started >>

GenInit ==
  /\ RunInit
  /\ log_entries = LogOff
  /\ retry_statistics = << >>
  /\ request = [confirm |-> FALSE, dry_run |-> TRUE, parallelism |-> 1, format |-> "CSV"]
  /\ source = CatalogEmpty
  /\ \E p \in Preferences : generator = NewGenerator(p)

\* plan(): SnowflakeGenerator.generate_complete_ddl for database db, stage
\* stage, file format ff, the schema public with the table generated and the
\* view v, whose definition is view_definition
GenerateCompleteDDL(view_definition) ==
  /\ generator.col_def # << >>
  /\ generator.ddl = << >>
  /\ LET schema == generator.full_table_name[1]
         ddl_lines ==
           << << "--", " Snowflake Migration DDL" >>,
              << "--", " Generated: 2024-01-01T00:00:00" >>,
              << "--", " Source: PostgreSQL source" >>,
              << >>,
              << "--", " Database: db" >>,
              << "CREATE DATABASE IF NOT EXISTS db", ";" >>,
              << "USE DATABASE db", ";" >>,
              << >>,
              << "--", " Internal stage for data loading" >>,
              << "CREATE STAGE IF NOT EXISTS stage", ";" >>,
              << >>,
              << "--", " File format for ", request.format >>,
              << "CREATE FILE FORMAT IF NOT EXISTS ff" >>,
              << "    ", "TYPE = ", request.format, ";" >>,
              << >>,
              << "--", " Schema: " >> \o schema,
              << "CREATE SCHEMA IF NOT EXISTS " >> \o schema \o << ";" >>,
              << >>,
              << >>,
              table_ddl(generator.full_table_name, generator.col_def[1]),
              << >>,
              generate_view_ddl(schema,
                 quote_identifier(generator.preferences.case_style, << "v" >>),
                 view_definition),
              << >> >>
     IN generator' = [generator EXCEPT
          !.view_definition = << view_definition >>,
          !.ddl = << JoinLines(ddl_lines) >>]
  /\ UNCHANGED << runVars, progressVars, logVars, retry_statistics, started >>

GenNext ==
  \/ \E c \in ColumnInputs : GenerateTableDDL(c[1], c[2], c[3])
  \/ \E v \in {<< "SELECT 1 AS one" >>,
               << "SELECT a", "\n", "   FROM t", ";" >>} : GenerateCompleteDDL(v)

GenSpec == GenInit /\ [][GenNext]_vars

\* ------------------------------------------------------------------------
\* Properties
\* ------------------------------------------------------------------------
\* every table result built so far, recorded by the orchestrator or not yet
TableResults == migration_results \o schema_results

LoadResultsOf(r) == Get(r, "load_results", << >>)

\* C1: once the status is COMPLETED, FAILED or CANCELLED no step changes it.
C1_TerminalStatusAbsorbing ==
  [][(status \in TerminalStatus) => (status' = status)]_vars

\* C2: in run_complete, execute is called, and the status becomes EXECUTING,
\* if and only if confirm is true and dry_run is false.
C2_ExecutingIffConfirmAndNotDryRun ==
  /\ [](status = EXECUTING => request.confirm /\ ~request.dry_run)
  /\ [][(pc = "gate" /\ pc' # pc) =>
          ((pc' = "execute") <=> (request.confirm /\ ~request.dry_run))]_vars
  /\ [][(pc = "execute" /\ pc' # pc) => status' = EXECUTING]_vars
  /\ [][(status' = EXECUTING /\ status # EXECUTING) => pc = "execute"]_vars

C2_Witness ==
  /\ pc = "ddl"
  /\ status = EXECUTING
  /\ request.confirm
  /\ ~request.dry_run

\* C3: a dry run, also with confirm set, executes nothing: no DDL statement,
\* no loader or extractor connection, no table extracted, uploaded or copied,
\* no migration result; when it returns the seven planning artifacts are
\* written, until the run is deleted, and, unless a cancel arrived, the
\* status is COMPLETED.
C3_DryRunExecutesNothing ==
  request.dry_run =>
    /\ pc \notin {"execute", "ddl", "schema", "migrating", "validate", "validating"}
    /\ ddl_executed = 0
    /\ open_conns = {}
    /\ \A k \in DOMAIN workers : workers[k] = IdleWorker
    /\ loaded_files = {}
    /\ migration_results = << >>
    /\ TotalRows(migration_results) = 0
    /\ (pc = "done" /\ active_migrations) =>
         /\ PlanningArtifacts \subseteq artifacts
         /\ Cardinality(PlanningArtifacts) = 7
         /\ cancel_requested = "no" => status = COMPLETED

C3_Witness ==
  /\ request.dry_run
  /\ request.confirm
  /\ pc = "done"
  /\ status = COMPLETED
  /\ PlanningArtifacts \subseteq artifacts

\* C4: a run cancelled before it terminated ends with status CANCELLED.
C4_CancelledRunEndsCancelled ==
  (Ended /\ cancel_requested = "live") => status = CANCELLED

\* some table was not extracted, or one of its files not uploaded or copied
SomeTableFailure(results) ==
  \E i \in DOMAIN results :
     \/ results[i].status = "failed"
     \/ \E j \in DOMAIN LoadResultsOf(results[i]) :
           LoadResultsOf(results[i])[j].status \in {"failed", "upload_failed"}

\* C5: when run_complete returns, with no cancel involved, a failed extract
\* or load of any table means status FAILED, never COMPLETED.
C5_TableFailureFailsRun ==
  (pc = "done" /\ cancel_requested = "no" /\ SomeTableFailure(migration_results))
     => status = FAILED

\* C6: whenever run_complete ends for a dry run or a confirmed run, finalize
\* has run: summary.md and run_log.ndjson are written.
C6_FinalizeAlwaysRuns ==
  (Ended /\ (request.dry_run \/ request.confirm))
     => {"summary.md", "run_log.ndjson"} \subseteq artifacts

\* C7: a table with a file whose COPY failed has aggregate status 'failed'.
C7_CopyFailureFailsTable ==
  \A i \in DOMAIN TableResults :
     (\E j \in DOMAIN LoadResultsOf(TableResults[i]) :
         LoadResultsOf(TableResults[i])[j].status = "failed")
        => TableResults[i].status = "failed"

\* C8: a 'failed' COPY result is recorded only after StopAfterAttempt
\* attempts of the COPY for that file.
C8_CopyFailureAfterThreeAttempts ==
  [][\A k \in DOMAIN workers :
       (/\ workers[k].pc = "copy"
        /\ Len(workers'[k].results) > Len(workers[k].results)
        /\ Last(workers'[k].results).status = "failed")
          => (workers[k].attempt_number + 1 = StopAfterAttempt)]_vars

\* results of the file `name` with one of the statuses `sts`
ResultsFor(results, name, sts) ==
  {j \in DOMAIN results : results[j].file = name /\ results[j].status \in sts}

\* C9: the PUT of a file is attempted at most StopAfterAttempt times; when all
\* attempts failed load_table records exactly one 'upload_failed' result for
\* the file, issues no COPY for it, and goes on with the remaining files.
C9_UploadExhaustion ==
  /\ [](\A k \in DOMAIN workers : workers[k].attempt_number < StopAfterAttempt)
  /\ [][\A k \in DOMAIN workers :
          (workers[k].pc = "upload" /\ workers'[k].results # workers[k].results)
             => /\ workers[k].attempt_number + 1 = StopAfterAttempt
                /\ workers'[k].results = Append(workers[k].results,
                       UploadFailed(workers[k].file_paths[workers[k].idx]))
                /\ workers'[k].uploaded_files = workers[k].uploaded_files
                /\ workers[k].idx < Len(workers[k].file_paths)
                     => (/\ workers'[k].pc = "upload"
                         /\ workers'[k].idx = workers[k].idx + 1)]_vars
  /\ [](\A k \in DOMAIN workers :
          workers[k].pc \in {"copy", "aggregate"} =>
            \A i \in DOMAIN workers[k].file_paths :
               LET name == Basename(workers[k].file_paths[i])
                   w == workers[k]
               IN IF name \in Range(w.uploaded_files)
                  THEN ResultsFor(w.results, name, {"upload_failed"}) = {}
                  ELSE /\ Cardinality(ResultsFor(w.results, name, {"upload_failed"})) = 1
                       /\ ResultsFor(w.results, name, {"success", "failed"}) = {})
  /\ [](\A k \in DOMAIN workers :
          workers[k].pc = "aggregate" =>
            \A name \in Range(workers[k].uploaded_files) :
               \/ ResultsFor(workers[k].results, name, {"success", "failed"}) # {}
               \/ name \in loaded_files)

C9_Witness ==
  \E k \in DOMAIN workers :
     /\ workers[k].pc = "aggregate"
     /\ Len(workers[k].file_paths) = 2
     /\ workers[k].results[1].status = "upload_failed"
     /\ workers[k].results[1].file = Basename(workers[k].file_paths[1])
     /\ workers[k].results[2].status = "success"
     /\ workers[k].results[2].file = Basename(workers[k].file_paths[2])

\* where a 'success' is recorded for the staged file `name`
SuccessesRecorded(name) ==
  UNION {{<<"table", i, j>> :
            j \in ResultsFor(LoadResultsOf(TableResults[i]), name, {"success"})} :
         i \in DOMAIN TableResults}
  \cup
  UNION {{<<"worker", k, j>> :
            j \in ResultsFor(workers[k].results, name, {"success"})} :
         k \in DOMAIN workers}

\* every staged file name the loader has met
StagedNames ==
  loaded_files
  \cup UNION {Range(workers[k].uploaded_files) : k \in DOMAIN workers}
  \cup UNION {{LoadResultsOf(TableResults[i])[j].file :
                 j \in DOMAIN LoadResultsOf(TableResults[i])} :
              i \in DOMAIN TableResults}

\* C10: within one run a staged file is copied at most once after its first
\* success: exactly one success is recorded for every file of loaded_files,
\* and none for any other file.
C10_LoaderIdempotent ==
  \A name \in StagedNames :
     Cardinality(SuccessesRecorded(name)) = IF name \in loaded_files THEN 1 ELSE 0

C10_Witness ==
  \E k \in DOMAIN workers :
     /\ workers[k].pc = "aggregate"
     /\ Len(workers[k].uploaded_files) = 1
     /\ workers[k].uploaded_files[1] \in loaded_files
     /\ workers[k].results = << >>
     /\ \E i \in DOMAIN migration_results :
           ResultsFor(LoadResultsOf(migration_results[i]),
                      workers[k].uploaded_files[1], {"success"}) # {}

\* rows the extractor wrote to the chunk files of one table
RECURSIVE RowsRead(_)
RowsRead(file_rows) ==
  IF file_rows = << >> THEN 0 ELSE Head(file_rows) + RowsRead(Tail(file_rows))

\* C11: a table returned by migrate_table with status 'completed' has
\* rows_loaded equal to the number of rows the extractor read from the source
\* table, whatever happened to the PUT and COPY of its chunk files.
C11_CompletedRowsEqualSource ==
  [][\A k \in DOMAIN workers :
       (workers[k].pc = "aggregate" /\ workers'[k].pc = "done")
          => (Last(schema_results').status = "completed"
                => Last(schema_results').rows_loaded = RowsRead(workers[k].file_rows))]_vars

\* C12: when load_table has returned for a table, its results name exactly
\* the chunk files extracted for the table, each of them once.
C12_OneResultPerExtractedFile ==
  \A k \in DOMAIN workers :
     workers[k].pc = "aggregate" =>
        /\ {workers[k].results[j].file : j \in DOMAIN workers[k].results}
             = {Basename(workers[k].file_paths[i]) : i \in DOMAIN workers[k].file_paths}
        /\ Len(workers[k].results) = Len(workers[k].file_paths)

\* C13: two table migrations running at the same time never use the same
\* PostgreSQL connection nor the same Snowflake connection.
C13_NoConnectionShared ==
  \A k \in DOMAIN workers : \A j \in DOMAIN workers :
     (k # j /\ k \in Running(k[1]) /\ j \in Running(j[1]))
        => /\ ExtractorConn(k) # ExtractorConn(j)
           /\ LoaderConn(k) # LoaderConn(j)

\* results of migrate_schema so far for the table k
ResultsOfTable(k) ==
  {i \in DOMAIN schema_results :
     /\ schema_results[i].schema = SchemaName(Schemas(analysis_results), k)
     /\ schema_results[i].table = TableName(Schemas(analysis_results), k)}

\* C15: a failed extract of one table appends a 'failed' result for that
\* table and touches no other worker nor the run; a 'failed' result comes
\* from nowhere else; migrate_schema returns, to execute, exactly one result
\* for each table of the schema.
C15_TableFailureIsolated ==
  /\ [][\A k \in DOMAIN workers :
          (workers[k].pc = "extract" /\ workers'[k].pc = "done")
             => /\ schema_results' = Append(schema_results,
                     [schema |-> SchemaName(Schemas(analysis_results), k),
                      table |-> TableName(Schemas(analysis_results), k),
                      status |-> "failed"])
                /\ \A j \in DOMAIN workers : j # k => workers'[j] = workers[j]
                /\ pc' = "migrating"
                /\ status' = status]_vars
  /\ [][(Len(schema_results') > Len(schema_results)
           /\ Last(schema_results').status = "failed")
          => (\E k \in DOMAIN workers :
                /\ workers[k].pc = "extract"
                /\ Last(schema_results').schema = SchemaName(Schemas(analysis_results), k)
                /\ Last(schema_results').table = TableName(Schemas(analysis_results), k))]_vars
  /\ [][(pc = "migrating" /\ pc' = "schema")
          => /\ \A k \in SchemaTables(schema_idx) :
                   Cardinality(ResultsOfTable(k)) = 1
             /\ Len(schema_results) = Cardinality(SchemaTables(schema_idx))
             /\ migration_results' = migration_results \o schema_results]_vars

C15_Witness ==
  /\ pc = "schema"
  /\ Len(migration_results) = 2
  /\ \E i \in DOMAIN migration_results : \E j \in DOMAIN migration_results :
        /\ migration_results[i].status = "failed"
        /\ migration_results[j].status = "completed"
        /\ migration_results[j].schema = migration_results[i].schema
        /\ migration_results[j].rows_loaded = MaxRows

\* C17: validate never raises into run_complete and changes neither the
\* status nor the migration results, whatever its checks return and whether
\* or not the validator connects; the status finalize sets is FAILED when
\* some migration result is 'failed' and COMPLETED otherwise.
C17_ValidationNeverChangesOutcome ==
  /\ [][(pc = "validating" /\ pc' # pc)
          => /\ pc' = "finalize"
             /\ status' = status
             /\ migration_results' = migration_results]_vars
  /\ [][(pc = "finalize" /\ pc' = "done")
          => status' = IF \E i \in DOMAIN migration_results :
                             migration_results[i].status = "failed"
                        THEN FAILED ELSE COMPLETED]_vars

C17_Witness ==
  /\ pc = "done"
  /\ cancel_requested = "no"
  /\ status = COMPLETED
  /\ \E i \in DOMAIN validation_results : validation_results[i].status = "ERROR"

\* the tables a check of which runs a query: every table for row_count
ChecksWithQuery(detail) ==
  {"row_count"}
  \cup (IF detail.not_null THEN {"not_null_constraints"} ELSE {})
  \cup (IF detail.has_pk THEN {"primary_key_duplicates"} ELSE {})
  \cup (IF detail.json THEN {"json_validity"} ELSE {})

\* the table of the catalog a validation result is about
DetailOf(r) ==
  LET k == CHOOSE k \in TableKeys(Schemas(analysis_results)) :
              /\ SchemaName(Schemas(analysis_results), k) = r.schema
              /\ TableName(Schemas(analysis_results), k) = r.table
  IN Schemas(analysis_results)[k[1]].tables[k[2]]

\* C18: when the validation queries of a run raise, every check that ran a
\* query has status ERROR.
C18_QueryErrorIsError ==
  [][(/\ pc = "validating"
      /\ validation_results' # validation_results
      /\ validation_results' = validation_results \o
           ValidateLoop(Schemas(analysis_results), migration_results, "query_error", 1, 1))
       => \A i \in DOMAIN validation_results' :
             validation_results'[i].check \in ChecksWithQuery(DetailOf(validation_results'[i]))
               => validation_results'[i].status = "ERROR"]_vars

\* the tables with a 'completed' migration result
CompletedKeys ==
  {k \in TableKeys(Schemas(analysis_results)) :
     \E i \in DOMAIN migration_results :
        /\ migration_results[i].schema = SchemaName(Schemas(analysis_results), k)
        /\ migration_results[i].table = TableName(Schemas(analysis_results), k)
        /\ migration_results[i].status = "completed"}

CheckOrder ==
  << "row_count", "not_null_constraints", "primary_key_duplicates", "json_validity" >>

\* C19: when validate has appended results, they are four per table with a
\* 'completed' migration result and none for any other table, each table
\* once, the checks in the order ROW_COUNT, NOT_NULL, PK_DUPLICATES,
\* JSON_VALIDITY, with PK_DUPLICATES = SKIP exactly for a table without
\* primary key and JSON_VALIDITY = SKIP exactly for one without JSON column.
C19_FourChecksPerCompletedTable ==
  [][(pc = "validating" /\ validation_results' # validation_results)
       => LET new == validation_results'
              n == Cardinality(CompletedKeys)
              TableAt(m) == <<new[4 * m + 1].schema, new[4 * m + 1].table>>
          IN /\ validation_results = << >>
             /\ Len(new) = 4 * n
             /\ \A m \in 0..(n - 1) :
                   /\ \E k \in CompletedKeys :
                         TableAt(m) = <<SchemaName(Schemas(analysis_results), k),
                                        TableName(Schemas(analysis_results), k)>>
                   /\ \A c \in 1..4 :
                         /\ <<new[4 * m + c].schema, new[4 * m + c].table>> = TableAt(m)
                         /\ new[4 * m + c].check = CheckOrder[c]
                   /\ (new[4 * m + 3].status = "SKIP") <=> ~DetailOf(new[4 * m + 1]).has_pk
                   /\ (new[4 * m + 4].status = "SKIP") <=> ~DetailOf(new[4 * m + 1]).json
                   /\ \A m2 \in 0..(n - 1) : m2 # m => TableAt(m2) # TableAt(m)]_vars

C19_Witness ==
  /\ pc = "finalize"
  /\ Len(validation_results) = 4
  /\ Len(migration_results) = 2
  /\ \E i \in DOMAIN migration_results : migration_results[i].status = "failed"
  /\ validation_results[3].status = "SKIP"
  /\ validation_results[4].status # "SKIP"

C20_DdlStopsAtFirstFailure ==
  /\ [](ddl_failed # 0 =>
          /\ ddl_executed = ddl_failed - 1
          /\ pc \in {"handler", "raised"}
          /\ \A k \in DOMAIN workers : workers[k] = IdleWorker
          /\ loaded_files = {}
          /\ migration_results = << >>
          /\ (pc = "raised" /\ cancel_requested = "no") => status = FAILED)
  /\ [][(pc = "ddl" /\ ddl_failed' # 0)
          => (status' = FAILED /\ pc' = "handler")]_vars
  /\ [][(pc = "ddl" /\ pc' = "schema")
          => (ddl_failed' = 0 /\ ddl_executed' = NumDDL(Schemas(analysis_results)))]_vars

C20_Witness ==
  /\ ddl_failed = 2
  /\ ddl_executed = 1
  /\ pc = "raised"
  /\ status = FAILED
  /\ NumTables(source) > 0

\* the tables a worker thread is extracting, uploading, copying or aggregating
InMigration ==
  {k \in DOMAIN workers :
     workers[k].pc \in {"extract", "upload", "copy", "aggregate"}}

\* C14: never more than `parallelism` tables are in migration at once, and
\* every table submitted to the pool is eventually taken by a worker.
C14_PoolBoundedAndEveryTableStarted ==
  /\ [](Cardinality(InMigration) <= request.parallelism)
  /\ \A k \in AllKeys :
        [](((k \in DOMAIN workers) /\ workers[k].pc = "queued")
             => <>((k \in DOMAIN workers) /\ workers[k].pc # "queued"))

C14_Witness ==
  /\ request.parallelism = 1
  /\ source = CatalogOneSchema
  /\ workers[<<1, 1>>].pc = "done"
  /\ workers[<<1, 2>>].pc = "copy"

\* C21: outside the extract+load of a schema, the one phase the model shows
\* in progress, no connection is open: every phase that has exited, normally
\* or by an exception, has closed the connections it opened.
C21_NoConnectionHeldAcrossPhases ==
  pc # "migrating" => open_conns = {}

\* C22: the percent get_progress reports is 10 in ANALYZING, 20 in PLANNING,
\* 25 in AWAITING_CONFIRMATION, 30 + 60 * completed / total in EXECUTING, 90
\* in VALIDATING and 100 in COMPLETED, in every state of the run.
C22_PercentByPhase ==
  LET p == MigrationProgress(status, analysis_results, migration_results)
  IN /\ status = ANALYZING => p.progress_percent = 10
     /\ status = PLANNING => p.progress_percent = 20
     /\ status = AWAITING_CONFIRMATION => p.progress_percent = 25
     /\ status = EXECUTING =>
          /\ p.tables_total > 0
          /\ p.progress_percent * p.tables_total
               = 30 * p.tables_total + 60 * p.tables_completed
     /\ status = VALIDATING => p.progress_percent = 90
     /\ status = COMPLETED => p.progress_percent = 100

\* C30: a dry run never has status AWAITING_CONFIRMATION.
C30_DryRunNeverAwaitsConfirmation ==
  request.dry_run => status # AWAITING_CONFIRMATION

\* C23: a snapshot get_progress returns has its phase equal to its status,
\* the percent the phase prescribes, and tables_completed <= tables_total.
C23_SnapshotConsistent ==
  progress_pc = "returned" =>
     /\ progress.phase = progress.status
     /\ progress.completed_tables <= progress.total_tables
     /\ progress.status = ANALYZING => progress.progress_percent = 10
     /\ progress.status = PLANNING => progress.progress_percent = 20
     /\ progress.status = AWAITING_CONFIRMATION => progress.progress_percent = 25
     /\ progress.status = EXECUTING =>
          progress.progress_percent * progress.total_tables
            = 30 * progress.total_tables + 60 * progress.completed_tables
     /\ progress.status = VALIDATING => progress.progress_percent = 90
     /\ progress.status = COMPLETED => progress.progress_percent = 100

\* the messages kept in the run's log or written to run_log.ndjson
StoredMessages ==
  (IF log_entries = LogOff THEN {} ELSE Range(log_entries[1]))
    \cup (IF run_log = << >> THEN {} ELSE Range(run_log[1]))

\* C26: no stored log message contains the source password or the OAuth
\* token, and every stored message is what the redactor makes of it.
C26_NoSecretInRunLog ==
  \A m \in StoredMessages :
     /\ PASSWORD \notin Range(m)
     /\ ACCESS_TOKEN \notin Range(m)
     /\ m = redact_sensitive_data(m)

\* ceil(n / c)
CeilDiv(n, c) == (n + c - 1) \div c

FileNamesOf(r) ==
  {LoadResultsOf(r)[j].file : j \in DOMAIN LoadResultsOf(r)}

\* C25: within one run the chunk files of two different tables never have
\* the same name, nor do two chunks of one table.
C25_ChunkFileNamesDistinct ==
  \A i \in DOMAIN TableResults : \A j \in DOMAIN TableResults :
     /\ Cardinality(FileNamesOf(TableResults[i])) = Len(LoadResultsOf(TableResults[i]))
     /\ << TableResults[i].schema, TableResults[i].table >>
          # << TableResults[j].schema, TableResults[j].table >>
        => FileNamesOf(TableResults[i]) \cap FileNamesOf(TableResults[j]) = {}

\* the characters [A-Za-z0-9_]
WordChars ==
  ((Range(LowerCase) \cup Range(UpperCase)) \ {"eacute", "EACUTE"})
     \cup Digits \cup {"_"}

\* C27: the name of an emitted column is double-quoted when, normalized, it
\* is a word of the reserved list of the analyzer or holds a character
\* outside [A-Za-z0-9_]; otherwise it is the bare normalized name.
C27_QuotedIffReservedOrSpecial ==
  generator.col_def # << >> =>
     LET normalized == normalize_identifier(generator.preferences.case_style,
                                            generator.col[1].column_name)
         needs == \/ StrUpper(normalized) \in analyzer_snowflake_reserved
                  \/ \E i \in DOMAIN normalized : normalized[i] \notin WordChars
     IN generator.col_def[1].col_name =
          IF needs THEN Quoted(normalized) ELSE normalized

\* the column is a serial: it has a serial sequence and is no identity column
IsSerial(col) == col.serial_sequence # << >> /\ col.is_identity = "NO"

\* C28: a serial column is emitted with IDENTITY(1, 1) and no DEFAULT when
\* use_identity_for_serial is true, with DEFAULT <schema>.<seq>.NEXTVAL and no
\* IDENTITY when it is false; no column has both an IDENTITY and a DEFAULT.
C28_IdentityOrNextval ==
  generator.col_def # << >> =>
     LET col == generator.col[1]
         def == generator.col_def[1]
         prefs == generator.preferences
     IN /\ ~(def.identity # << >> /\ def.default # << >>)
        /\ IsSerial(col) =>
             IF prefs.use_identity_for_serial
             THEN def.identity = << 1, 1 >> /\ def.default = << >>
             ELSE /\ def.identity = << >>
                  /\ def.default =
                       << "DEFAULT", quote_identifier(prefs.case_style, SchemaPublic), ".",
                          quote_identifier(prefs.case_style,
                                           SplitLast(col.serial_sequence, ".")),
                          ".", "NEXTVAL" >>

\* C29: a column of a character type with length L is mapped to VARCHAR(L)
\* for 1 <= L <= 16,777,216, to VARCHAR without length and a rationale that
\* says so for L >= 16,777,217, and to VARCHAR without length when it has no
\* declared length.
C29_VarcharLength ==
  (generator.col_def # << >> /\ TypeLower(generator.col[1].data_type) \in CharTypes) =>
     LET L == generator.col[1].character_maximum_length
         def == generator.col_def[1]
     IN /\ (L # << >> /\ 1 <= L[1] /\ L[1] <= 16777216)
             => def.sf_type = << "VARCHAR", "(", ToString(L[1]), ")" >>
        /\ (L # << >> /\ L[1] >= 16777217)
             => /\ def.sf_type = << "VARCHAR" >>
                /\ "exceeds Snowflake max; using VARCHAR(16777216)" \in Range(def.rationale)
        /\ L = << >> => def.sf_type = << "VARCHAR" >>

\* the longest bounded length and the shortest unbounded one have been mapped
C29_Witness ==
  /\ generator.col_def # << >>
  /\ generator.col[1].data_type = "CHAR"
  /\ generator.col[1].character_maximum_length = << 16777216 >>
  /\ generator.col_def[1].sf_type = << "VARCHAR", "(", "16777216", ")" >>

\* C31: a cancel request made right after a cancel request (the run is
\* cancelled and the last log entry is the one the first request wrote)
\* changes nothing a client can observe: status, progress snapshot, log.
C31_CancelIdempotent ==
  [][(/\ Cancel
      /\ status = CANCELLED
      /\ log_entries # LogOff
      /\ log_entries[1] # << >>
      /\ log_entries[1][Len(log_entries[1])] = CancelMessage)
     => (/\ status' = status
         /\ MigrationProgress(status', analysis_results', migration_results')
              = MigrationProgress(status, analysis_results, migration_results)
         /\ log_entries' = log_entries)]_vars

\* C35: once run_complete has returned or raised (no cancel request has
\* logged anything, and the save_log of the except clause did not itself
\* fail), run_log.ndjson holds every entry of log_entries, in order.
C35_RunLogHoldsEveryEntry ==
  (/\ Ended
   /\ Cancels(log_entries) = 0
   /\ pc = "raised" => "run_log.ndjson" \in artifacts)
  => run_log = log_entries

\* the table a migration result is about
KeyOf(r) ==
  CHOOSE k \in TableKeys(source) :
     /\ SchemaName(source, k) = r.schema
     /\ TableName(source, k) = r.table

\* the staged files a table result reports as loaded successfully
LoadedOnce(r) ==
  \A i, j \in DOMAIN LoadResultsOf(r) :
     (/\ LoadResultsOf(r)[i].status = "success"
      /\ LoadResultsOf(r)[j].status = "success"
      /\ LoadResultsOf(r)[i].file = LoadResultsOf(r)[j].file) => i = j

\* C32: a table of which an upload succeeded on its third attempt is reported
\* completed, each of its files loaded once, and the TableStatus get_progress
\* builds for it has retries >= 2.
C32_RetriesReported ==
  \A i \in DOMAIN TableResults :
     LET r == TableResults[i]
     IN (retry_statistics # << >> /\ retry_statistics[1][KeyOf(r)] >= 2)
        => (/\ r.status = "completed"
            /\ LoadedOnce(r)
            /\ TableStatus(r).retries >= 2)

\* run_complete: the place of each position in the order of the phases
PhaseOrder ==
  [queued |-> 0, analyzing |-> 1, plan |-> 2, planning |-> 3, gate |-> 4,
   execute |-> 5, ddl |-> 6, schema |-> 7, migrating |-> 7, validate |-> 8,
   validating |-> 9, finalize |-> 10, done |-> 11, handler |-> 12, raised |-> 13]

\* some table has been taken up by migrate_table, or a file has been loaded
TableWorkStarted ==
  \/ \E k \in DOMAIN workers : workers[k].pc \notin {"idle", "queued"}
  \/ loaded_files # {}
  \/ TableResults # << >>

\* every table of every schema has its MigrationResult
EveryTableHasResult ==
  \A k \in TableKeys(source) :
     \E i \in DOMAIN migration_results :
        /\ migration_results[i].schema = SchemaName(source, k)
        /\ migration_results[i].table = TableName(source, k)

\* C33: in a confirmed run that is no dry run the phases follow each other
\* in the order analyze, plan, DDL, extract and load, validate, finalize: no
\* table is worked on before every DDL statement has succeeded, validation
\* starts only when every table has its result, and finalize starts only
\* when validate has returned.
C33_PhasesInOrder ==
  /\ [](Gate(request) = "execute" =>
          (TableWorkStarted =>
             /\ ddl_failed = 0
             /\ ddl_executed = NumDDL(source)))
  /\ [][(Gate(request) = "execute") =>
          (/\ PhaseOrder[pc'] >= PhaseOrder[pc]
           /\ (pc' = "validating" /\ pc # "validating") => EveryTableHasResult'
           /\ (pc' = "finalize" /\ pc # "finalize") => pc = "validating")]_vars

\* a confirmed run has gone through all the phases, with a table migrated
C33_Witness ==
  /\ Gate(request) = "execute"
  /\ pc = "done"
  /\ migration_results # << >>
  /\ validation_results # << >>
  /\ "summary.md" \in artifacts

\* the chunk index of the file called `name` among the files of worker w
ChunkIndex(w, name) ==
  CHOOSE j \in DOMAIN w.file_paths : Basename(w.file_paths[j]) = name

\* the names, a sequence, are in ascending chunk order
AscendingChunks(w, names) ==
  \A i, j \in DOMAIN names :
     i < j => ChunkIndex(w, names[i]) < ChunkIndex(w, names[j])

\* the results of w that come from COPY INTO, and their files, in order
CopyResults(w) == SelectSeq(w.results, LAMBDA r : r.status # "upload_failed")
CopiedFiles(w) == [i \in DOMAIN CopyResults(w) |-> CopyResults(w)[i].file]

\* C34: the work on one table is sequential: the chunk files are all written
\* before the first PUT, every file has had its PUT before the first COPY,
\* and the PUTs, as the COPYs, are made in ascending chunk order.
C34_TableWorkSequential ==
  /\ [](\A k \in DOMAIN workers :
          LET w == workers[k]
          IN /\ w.pc = "upload" =>
                  /\ CopyResults(w) = << >>
                  /\ Len(w.uploaded_files) + Len(w.results) = w.idx - 1
             /\ w.pc \in {"copy", "aggregate"} =>
                  Len(w.uploaded_files) + Len(w.results) - Len(CopyResults(w))
                    = Len(w.file_paths)
             /\ w.pc = "copy" =>
                  \A i \in DOMAIN CopiedFiles(w) :
                     ChunkIndex(w, CopiedFiles(w)[i])
                       < ChunkIndex(w, w.uploaded_files[w.idx])
             /\ w.pc \in {"upload", "copy", "aggregate"} =>
                  /\ AscendingChunks(w, w.uploaded_files)
                  /\ AscendingChunks(w, CopiedFiles(w)))
  /\ [][\A k \in DOMAIN workers :
          LET w == workers[k]
              v == workers'[k]
          IN /\ (w.pc \in {"upload", "copy"} /\ v.pc \in {"upload", "copy", "aggregate"})
                  => v.file_paths = w.file_paths
             /\ (w.pc = "upload" /\ v.uploaded_files # w.uploaded_files)
                  => v.uploaded_files
                       = Append(w.uploaded_files, Basename(w.file_paths[w.idx]))
             /\ (w.pc = "copy" /\ v.pc \in {"copy", "aggregate"})
                  => v.uploaded_files = w.uploaded_files]_vars

\* a table of two chunk files, both staged, the first one copied
C34_Witness ==
  \E k \in DOMAIN workers :
     /\ workers[k].pc = "copy"
     /\ Len(workers[k].file_paths) = 2
     /\ Len(workers[k].uploaded_files) = 2
     /\ workers[k].idx = 2
     /\ Len(CopyResults(workers[k])) = 1

\* C36: when delete_migration has removed the run (its directories are gone
\* and it is no longer registered), the background task has ended: nothing
\* is left that would read or write the removed directories.
C36_DeleteOnlyAfterTaskEnded ==
  (~active_migrations /\ dirs = {}) => Ended

\* C37: a start request made with the run_id of a registered run finds its
\* background task ended: the registered orchestrator is not replaced, and
\* no second orchestrator is put on its directories, while the task runs.
C37_OneOrchestratorPerWorkspace ==
  [][(started' # started /\ active_migrations) => Ended]_vars

\* the request asks for a plan only: confirm = false and dry_run = false
Unconfirmed == ~request.confirm /\ ~request.dry_run

Denotes(identifier) ==
  IF Len(identifier) >= 2 /\ Head(identifier) = QUOTE /\ Last(identifier) = QUOTE
  THEN SubSeq(identifier, 2, Len(identifier) - 1)
  ELSE StrUpper(identifier)

DenotesTable(path) == << Denotes(path[1]), Denotes(path[2]) >>

\* C39: the table named in COPY INTO, the columns of its column list and
\* the table of the validation queries denote the table and the column the
\* emitted CREATE TABLE creates, whatever the case_style and the source name.
C39_SameTargetObjects ==
  generator.col_def # << >> =>
     /\ DenotesTable(copy_full_table(SchemaPublic, generator.table_name))
          = DenotesTable(generator.full_table_name)
     /\ Denotes(copy_column(generator.col[1].column_name))
          = Denotes(generator.col_def[1].col_name)
     /\ DenotesTable(validator_table(SchemaPublic, generator.table_name))
          = DenotesTable(generator.full_table_name)

\* a statement without its comments: each "--" is dropped with the rest of
\* its line
RECURSIVE DropComments(_, _)
DropComments(s, in_comment) ==
  IF s = << >> THEN s
  ELSE IF Head(s) = "\n" THEN << "\n" >> \o DropComments(Tail(s), FALSE)
  ELSE IF in_comment \/ Head(s) = "--" THEN DropComments(Tail(s), TRUE)
  ELSE << Head(s) >> \o DropComments(Tail(s), FALSE)

\* what execute_ddl_script sends that is not comment only, in order
SentStatements ==
  LET sent == ddl_statements(generator.ddl[1])
  IN SelectSeq([i \in DOMAIN sent |-> Strip(DropComments(sent[i], FALSE))],
               LAMBDA statement : statement # << >>)

\* the statements the emitter wrote into the script, in order
EmittedStatements ==
  LET t == table_ddl(generator.full_table_name, generator.col_def[1])
  IN << << "CREATE DATABASE IF NOT EXISTS db" >>,
        << "USE DATABASE db" >>,
        << "CREATE STAGE IF NOT EXISTS stage" >>,
        << "CREATE FILE FORMAT IF NOT EXISTS ff", "\n", "    ", "TYPE = ", request.format >>,
        << "CREATE SCHEMA IF NOT EXISTS " >> \o generator.full_table_name[1],
        SubSeq(t, 1, Len(t) - 1) >>

\* C40: the statements execute_ddl_script sends, comments left aside, are
\* exactly the statements the emitter wrote, in order: none is cut at a ';'
\* inside a default expression or a view definition, and no line of a view
\* definition, written as a comment, is sent as SQL.
C40_SplitYieldsEmittedStatements ==
  generator.ddl # << >> => SentStatements = EmittedStatements
====
